---- MODULE Spec2Model ----
(***************************************************************************)
(* A model of xlsqlite's SQLITE() pipeline: reference extraction, reference *)
(* parsing, query rewriting and the orchestrator of main.py.                *)
(*                                                                          *)
(* A text is a sequence of one-character strings, so that the scanners and  *)
(* the regular expressions of parser.py are modelled character by           *)
(* character.  None is a value that is no text.                             *)
(***************************************************************************)
EXTENDS Integers, Sequences, FiniteSets, TLC

None == <<"<None>">>

\* ------------------------------------------------------------------------
\* Characters.  A character is a one-character string when its code point
\* is at most U+00FF, and the name of its code point beyond that: "U+" and
\* its four to six hexadecimal digits ("U+212A").  U+0000 and U+0060, which
\* no string of a module can hold, go by their names too.  The str methods
\* (isspace, isalnum, isdigit, strip, lower, upper) and the regular
\* expressions' \s, \d, \w, \b and re.IGNORECASE work on Unicode; the
\* classes [A-Z], [a-z] and [0-9] are the ASCII ones.  The tables are those
\* of Unicode 14.0.0, which CPython 3.11 holds.
\* ------------------------------------------------------------------------

UpperChars ==
    <<"A","B","C","D","E","F","G","H","I","J","K","L","M",
      "N","O","P","Q","R","S","T","U","V","W","X","Y","Z">>

LowerChars ==
    <<"a","b","c","d","e","f","g","h","i","j","k","l","m",
      "n","o","p","q","r","s","t","u","v","w","x","y","z">>

UpperSet == {UpperChars[i] : i \in 1..Len(UpperChars)}

LowerSet == {LowerChars[i] : i \in 1..Len(LowerChars)}

DigitSet == {"0","1","2","3","4","5","6","7","8","9"}

\* the letters of U+00C0..U+00DE and, place by place, their lowercase
Latin1UpperChars ==
    <<"À","Á","Â","Ã","Ä","Å","Æ","Ç","È","É","Ê","Ë","Ì","Í","Î",
      "Ï","Ð","Ñ","Ò","Ó","Ô","Õ","Ö","Ø","Ù","Ú","Û","Ü","Ý","Þ">>

Latin1LowerChars ==
    <<"à","á","â","ã","ä","å","æ","ç","è","é","ê","ë","ì","í","î",
      "ï","ð","ñ","ò","ó","ô","õ","ö","ø","ù","ú","û","ü","ý","þ">>

Latin1UpperSet == {Latin1UpperChars[i] : i \in 1..Len(Latin1UpperChars)}

Latin1LowerSet == {Latin1LowerChars[i] : i \in 1..Len(Latin1LowerChars)}

\* LATIN CAPITAL LETTER I WITH DOT ABOVE, LATIN SMALL LETTER DOTLESS I,
\* LATIN SMALL LETTER LONG S, KELVIN SIGN
DottedCapitalI == "U+0130"

DotlessI == "U+0131"

LongS == "U+017F"

KelvinSign == "U+212A"

\* LATIN CAPITAL LETTER Y WITH DIAERESIS and GREEK CAPITAL LETTER MU: the
\* uppercase of U+00FF and of U+00B5
CapitalYDiaeresis == "U+0178"

GreekCapitalMu == "U+039C"

\* GREEK CAPITAL LETTER SIGMA and GREEK SMALL LETTER FINAL SIGMA
CapitalSigma == "U+03A3"

SmallFinalSigma == "U+03C2"

\* NO-BREAK SPACE, U+00A0
NoBreakSpace == " "

\* the characters U+0001..U+00FF in the order of their code points, a blank
\* at the place of U+0060
Latin1Text ==
    "\t\n\f\r " \o
    "!\"#$%&'()*+,-./0123456789:;<=>?@" \o
    "ABCDEFGHIJKLMNOPQRSTUVWXYZ[\\]^_ " \o
    "abcdefghijklmnopqrstuvwxyz{|}~" \o
    " " \o
    "¡¢£¤¥¦§¨©ª«¬­®¯°±²³´µ¶·¸¹º»¼½¾¿À" \o
    "ÁÂÃÄÅÆÇÈÉÊËÌÍÎÏÐÑÒÓÔÕÖ×ØÙÚÛÜÝÞßà" \o
    "áâãäåæçèéêëìíîïðñòóôõö÷øùúûüýþÿ"

\* the characters U+0001..U+00FF, each at the place of its code point
Latin1Chars ==
    [n \in 1..255 |-> IF n = 96 THEN "U+0060" ELSE SubSeq(Latin1Text, n, n)]

HexDigits == <<"0","1","2","3","4","5","6","7","8","9","A","B","C","D","E","F">>

PlaceIn(chars, c) == CHOOSE i \in 1..Len(chars) : chars[i] = c

\* the character is given by the name of its code point
IsNamed(c) == Len(c) > 1 /\ SubSeq(c, 1, 2) = "U+"

\* the number the first n characters of a name stand for
RECURSIVE HexNumber(_, _)
HexNumber(c, n) ==
    IF n <= 2 THEN 0
    ELSE 16 * HexNumber(c, n - 1) + (PlaceIn(HexDigits, SubSeq(c, n, n)) - 1)

\* the number the hexadecimal digits text[first..last] stand for
RECURSIVE HexField(_, _, _)
HexField(text, first, last) ==
    IF last < first THEN 0
    ELSE 16 * HexField(text, first, last - 1)
         + (PlaceIn(HexDigits, SubSeq(text, last, last)) - 1)

\* a table is written as a text of entries of one width each
Entries(text, width) ==
    {SubSeq(text, (k - 1) * width + 1, k * width) : k \in 1..(Len(text) \div width)}

\* the ranges <<first, last>> of a text of entries "first-last "
RangesOf(text) == {<<HexField(e, 1, 6), HexField(e, 8, 13)>> : e \in Entries(text, 14)}

\* the runs <<first, last, step, shift>> of a text of entries
\* "first-last/step>image ", image being what first is taken to
RunsOf(text) ==
    {<<HexField(e, 1, 6), HexField(e, 8, 13), HexField(e, 15, 15),
       HexField(e, 17, 22) - HexField(e, 1, 6)>> : e \in Entries(text, 23)}

\* the pairs <<code point, code points>> of a text of entries
\* "point>n:first,second,third ", the n first of the three counting
SpecialsOf(text) ==
    {<<HexField(e, 1, 6),
       [i \in 1..HexField(e, 8, 8) |-> HexField(e, 3 + 7 * i, 8 + 7 * i)]>> :
         e \in Entries(text, 30)}

\* ord(c)
CodePoint(c) == IF IsNamed(c) THEN HexNumber(c, Len(c)) ELSE PlaceIn(Latin1Chars, c)

RECURSIVE HexName(_, _)
HexName(n, digits) ==
    IF n = 0 /\ digits <= 0 THEN ""
    ELSE HexName(n \div 16, digits - 1) \o HexDigits[(n % 16) + 1]

\* chr(n)
CharOf(n) == IF n \in 1..255 THEN Latin1Chars[n] ELSE "U+" \o HexName(n, 4)

CharsOf(points) == [i \in 1..Len(points) |-> CharOf(points[i])]

\* n lies in one of the ranges <<first, last>>
InRanges(n, table) == \E r \in table : r[1] <= n /\ n <= r[2]

\* str.isspace(), str.strip() and \s up to U+00FF: U+0009..U+000D,
\* U+001C..U+0020, U+0085, U+00A0
SpaceSet ==
    {"\t","\n","","\f","\r","","","",""," ",""," "}

\* str.isspace(), str.strip() and \s
SpaceRanges ==
    RangesOf("000009-00000D 00001C-000020 000085-000085 0000A0-0000A0 001680-001680 " \o
             "002000-00200A 002028-002029 00202F-00202F 00205F-00205F 003000-003000 ")

\* \d and str.isdecimal(): the category Nd
DecimalRanges ==
    RangesOf("000030-000039 000660-000669 0006F0-0006F9 0007C0-0007C9 000966-00096F " \o
             "0009E6-0009EF 000A66-000A6F 000AE6-000AEF 000B66-000B6F 000BE6-000BEF " \o
             "000C66-000C6F 000CE6-000CEF 000D66-000D6F 000DE6-000DEF 000E50-000E59 " \o
             "000ED0-000ED9 000F20-000F29 001040-001049 001090-001099 0017E0-0017E9 " \o
             "001810-001819 001946-00194F 0019D0-0019D9 001A80-001A89 001A90-001A99 " \o
             "001B50-001B59 001BB0-001BB9 001C40-001C49 001C50-001C59 00A620-00A629 " \o
             "00A8D0-00A8D9 00A900-00A909 00A9D0-00A9D9 00A9F0-00A9F9 00AA50-00AA59 " \o
             "00ABF0-00ABF9 00FF10-00FF19 0104A0-0104A9 010D30-010D39 011066-01106F " \o
             "0110F0-0110F9 011136-01113F 0111D0-0111D9 0112F0-0112F9 011450-011459 " \o
             "0114D0-0114D9 011650-011659 0116C0-0116C9 011730-011739 0118E0-0118E9 " \o
             "011950-011959 011C50-011C59 011D50-011D59 011DA0-011DA9 016A60-016A69 " \o
             "016AC0-016AC9 016B50-016B59 01D7CE-01D7FF 01E140-01E149 01E2F0-01E2F9 " \o
             "01E950-01E959 01FBF0-01FBF9 ")

\* str.isdigit()
DigitRanges ==
    RangesOf("000030-000039 0000B2-0000B3 0000B9-0000B9 000660-000669 0006F0-0006F9 " \o
             "0007C0-0007C9 000966-00096F 0009E6-0009EF 000A66-000A6F 000AE6-000AEF " \o
             "000B66-000B6F 000BE6-000BEF 000C66-000C6F 000CE6-000CEF 000D66-000D6F " \o
             "000DE6-000DEF 000E50-000E59 000ED0-000ED9 000F20-000F29 001040-001049 " \o
             "001090-001099 001369-001371 0017E0-0017E9 001810-001819 001946-00194F " \o
             "0019D0-0019DA 001A80-001A89 001A90-001A99 001B50-001B59 001BB0-001BB9 " \o
             "001C40-001C49 001C50-001C59 002070-002070 002074-002079 002080-002089 " \o
             "002460-002468 002474-00247C 002488-002490 0024EA-0024EA 0024F5-0024FD " \o
             "0024FF-0024FF 002776-00277E 002780-002788 00278A-002792 00A620-00A629 " \o
             "00A8D0-00A8D9 00A900-00A909 00A9D0-00A9D9 00A9F0-00A9F9 00AA50-00AA59 " \o
             "00ABF0-00ABF9 00FF10-00FF19 0104A0-0104A9 010A40-010A43 010D30-010D39 " \o
             "010E60-010E68 011052-01105A 011066-01106F 0110F0-0110F9 011136-01113F " \o
             "0111D0-0111D9 0112F0-0112F9 011450-011459 0114D0-0114D9 011650-011659 " \o
             "0116C0-0116C9 011730-011739 0118E0-0118E9 011950-011959 011C50-011C59 " \o
             "011D50-011D59 011DA0-011DA9 016A60-016A69 016AC0-016AC9 016B50-016B59 " \o
             "01D7CE-01D7FF 01E140-01E149 01E2F0-01E2F9 01E950-01E959 01F100-01F10A " \o
             "01FBF0-01FBF9 ")

\* str.isalnum(), and with "_" the regular expressions' \w
AlnumRanges ==
    RangesOf("000030-000039 000041-00005A 000061-00007A 0000AA-0000AA 0000B2-0000B3 " \o
             "0000B5-0000B5 0000B9-0000BA 0000BC-0000BE 0000C0-0000D6 0000D8-0000F6 " \o
             "0000F8-0002C1 0002C6-0002D1 0002E0-0002E4 0002EC-0002EC 0002EE-0002EE " \o
             "000370-000374 000376-000377 00037A-00037D 00037F-00037F 000386-000386 " \o
             "000388-00038A 00038C-00038C 00038E-0003A1 0003A3-0003F5 0003F7-000481 " \o
             "00048A-00052F 000531-000556 000559-000559 000560-000588 0005D0-0005EA " \o
             "0005EF-0005F2 000620-00064A 000660-000669 00066E-00066F 000671-0006D3 " \o
             "0006D5-0006D5 0006E5-0006E6 0006EE-0006FC 0006FF-0006FF 000710-000710 " \o
             "000712-00072F 00074D-0007A5 0007B1-0007B1 0007C0-0007EA 0007F4-0007F5 " \o
             "0007FA-0007FA 000800-000815 00081A-00081A 000824-000824 000828-000828 " \o
             "000840-000858 000860-00086A 000870-000887 000889-00088E 0008A0-0008C9 " \o
             "000904-000939 00093D-00093D 000950-000950 000958-000961 000966-00096F " \o
             "000971-000980 000985-00098C 00098F-000990 000993-0009A8 0009AA-0009B0 " \o
             "0009B2-0009B2 0009B6-0009B9 0009BD-0009BD 0009CE-0009CE 0009DC-0009DD " \o
             "0009DF-0009E1 0009E6-0009F1 0009F4-0009F9 0009FC-0009FC 000A05-000A0A " \o
             "000A0F-000A10 000A13-000A28 000A2A-000A30 000A32-000A33 000A35-000A36 " \o
             "000A38-000A39 000A59-000A5C 000A5E-000A5E 000A66-000A6F 000A72-000A74 " \o
             "000A85-000A8D 000A8F-000A91 000A93-000AA8 000AAA-000AB0 000AB2-000AB3 " \o
             "000AB5-000AB9 000ABD-000ABD 000AD0-000AD0 000AE0-000AE1 000AE6-000AEF " \o
             "000AF9-000AF9 000B05-000B0C 000B0F-000B10 000B13-000B28 000B2A-000B30 " \o
             "000B32-000B33 000B35-000B39 000B3D-000B3D 000B5C-000B5D 000B5F-000B61 " \o
             "000B66-000B6F 000B71-000B77 000B83-000B83 000B85-000B8A 000B8E-000B90 " \o
             "000B92-000B95 000B99-000B9A 000B9C-000B9C 000B9E-000B9F 000BA3-000BA4 " \o
             "000BA8-000BAA 000BAE-000BB9 000BD0-000BD0 000BE6-000BF2 000C05-000C0C " \o
             "000C0E-000C10 000C12-000C28 000C2A-000C39 000C3D-000C3D 000C58-000C5A " \o
             "000C5D-000C5D 000C60-000C61 000C66-000C6F 000C78-000C7E 000C80-000C80 " \o
             "000C85-000C8C 000C8E-000C90 000C92-000CA8 000CAA-000CB3 000CB5-000CB9 " \o
             "000CBD-000CBD 000CDD-000CDE 000CE0-000CE1 000CE6-000CEF 000CF1-000CF2 " \o
             "000D04-000D0C 000D0E-000D10 000D12-000D3A 000D3D-000D3D 000D4E-000D4E " \o
             "000D54-000D56 000D58-000D61 000D66-000D78 000D7A-000D7F 000D85-000D96 " \o
             "000D9A-000DB1 000DB3-000DBB 000DBD-000DBD 000DC0-000DC6 000DE6-000DEF " \o
             "000E01-000E30 000E32-000E33 000E40-000E46 000E50-000E59 000E81-000E82 " \o
             "000E84-000E84 000E86-000E8A 000E8C-000EA3 000EA5-000EA5 000EA7-000EB0 " \o
             "000EB2-000EB3 000EBD-000EBD 000EC0-000EC4 000EC6-000EC6 000ED0-000ED9 " \o
             "000EDC-000EDF 000F00-000F00 000F20-000F33 000F40-000F47 000F49-000F6C " \o
             "000F88-000F8C 001000-00102A 00103F-001049 001050-001055 00105A-00105D " \o
             "001061-001061 001065-001066 00106E-001070 001075-001081 00108E-00108E " \o
             "001090-001099 0010A0-0010C5 0010C7-0010C7 0010CD-0010CD 0010D0-0010FA " \o
             "0010FC-001248 00124A-00124D 001250-001256 001258-001258 00125A-00125D " \o
             "001260-001288 00128A-00128D 001290-0012B0 0012B2-0012B5 0012B8-0012BE " \o
             "0012C0-0012C0 0012C2-0012C5 0012C8-0012D6 0012D8-001310 001312-001315 " \o
             "001318-00135A 001369-00137C 001380-00138F 0013A0-0013F5 0013F8-0013FD " \o
             "001401-00166C 00166F-00167F 001681-00169A 0016A0-0016EA 0016EE-0016F8 " \o
             "001700-001711 00171F-001731 001740-001751 001760-00176C 00176E-001770 " \o
             "001780-0017B3 0017D7-0017D7 0017DC-0017DC 0017E0-0017E9 0017F0-0017F9 " \o
             "001810-001819 001820-001878 001880-001884 001887-0018A8 0018AA-0018AA " \o
             "0018B0-0018F5 001900-00191E 001946-00196D 001970-001974 001980-0019AB " \o
             "0019B0-0019C9 0019D0-0019DA 001A00-001A16 001A20-001A54 001A80-001A89 " \o
             "001A90-001A99 001AA7-001AA7 001B05-001B33 001B45-001B4C 001B50-001B59 " \o
             "001B83-001BA0 001BAE-001BE5 001C00-001C23 001C40-001C49 001C4D-001C7D " \o
             "001C80-001C88 001C90-001CBA 001CBD-001CBF 001CE9-001CEC 001CEE-001CF3 " \o
             "001CF5-001CF6 001CFA-001CFA 001D00-001DBF 001E00-001F15 001F18-001F1D " \o
             "001F20-001F45 001F48-001F4D 001F50-001F57 001F59-001F59 001F5B-001F5B " \o
             "001F5D-001F5D 001F5F-001F7D 001F80-001FB4 001FB6-001FBC 001FBE-001FBE " \o
             "001FC2-001FC4 001FC6-001FCC 001FD0-001FD3 001FD6-001FDB 001FE0-001FEC " \o
             "001FF2-001FF4 001FF6-001FFC 002070-002071 002074-002079 00207F-002089 " \o
             "002090-00209C 002102-002102 002107-002107 00210A-002113 002115-002115 " \o
             "002119-00211D 002124-002124 002126-002126 002128-002128 00212A-00212D " \o
             "00212F-002139 00213C-00213F 002145-002149 00214E-00214E 002150-002189 " \o
             "002460-00249B 0024EA-0024FF 002776-002793 002C00-002CE4 002CEB-002CEE " \o
             "002CF2-002CF3 002CFD-002CFD 002D00-002D25 002D27-002D27 002D2D-002D2D " \o
             "002D30-002D67 002D6F-002D6F 002D80-002D96 002DA0-002DA6 002DA8-002DAE " \o
             "002DB0-002DB6 002DB8-002DBE 002DC0-002DC6 002DC8-002DCE 002DD0-002DD6 " \o
             "002DD8-002DDE 002E2F-002E2F 003005-003007 003021-003029 003031-003035 " \o
             "003038-00303C 003041-003096 00309D-00309F 0030A1-0030FA 0030FC-0030FF " \o
             "003105-00312F 003131-00318E 003192-003195 0031A0-0031BF 0031F0-0031FF " \o
             "003220-003229 003248-00324F 003251-00325F 003280-003289 0032B1-0032BF " \o
             "003400-004DBF 004E00-00A48C 00A4D0-00A4FD 00A500-00A60C 00A610-00A62B " \o
             "00A640-00A66E 00A67F-00A69D 00A6A0-00A6EF 00A717-00A71F 00A722-00A788 " \o
             "00A78B-00A7CA 00A7D0-00A7D1 00A7D3-00A7D3 00A7D5-00A7D9 00A7F2-00A801 " \o
             "00A803-00A805 00A807-00A80A 00A80C-00A822 00A830-00A835 00A840-00A873 " \o
             "00A882-00A8B3 00A8D0-00A8D9 00A8F2-00A8F7 00A8FB-00A8FB 00A8FD-00A8FE " \o
             "00A900-00A925 00A930-00A946 00A960-00A97C 00A984-00A9B2 00A9CF-00A9D9 " \o
             "00A9E0-00A9E4 00A9E6-00A9FE 00AA00-00AA28 00AA40-00AA42 00AA44-00AA4B " \o
             "00AA50-00AA59 00AA60-00AA76 00AA7A-00AA7A 00AA7E-00AAAF 00AAB1-00AAB1 " \o
             "00AAB5-00AAB6 00AAB9-00AABD 00AAC0-00AAC0 00AAC2-00AAC2 00AADB-00AADD " \o
             "00AAE0-00AAEA 00AAF2-00AAF4 00AB01-00AB06 00AB09-00AB0E 00AB11-00AB16 " \o
             "00AB20-00AB26 00AB28-00AB2E 00AB30-00AB5A 00AB5C-00AB69 00AB70-00ABE2 " \o
             "00ABF0-00ABF9 00AC00-00D7A3 00D7B0-00D7C6 00D7CB-00D7FB 00F900-00FA6D " \o
             "00FA70-00FAD9 00FB00-00FB06 00FB13-00FB17 00FB1D-00FB1D 00FB1F-00FB28 " \o
             "00FB2A-00FB36 00FB38-00FB3C 00FB3E-00FB3E 00FB40-00FB41 00FB43-00FB44 " \o
             "00FB46-00FBB1 00FBD3-00FD3D 00FD50-00FD8F 00FD92-00FDC7 00FDF0-00FDFB " \o
             "00FE70-00FE74 00FE76-00FEFC 00FF10-00FF19 00FF21-00FF3A 00FF41-00FF5A " \o
             "00FF66-00FFBE 00FFC2-00FFC7 00FFCA-00FFCF 00FFD2-00FFD7 00FFDA-00FFDC " \o
             "010000-01000B 01000D-010026 010028-01003A 01003C-01003D 01003F-01004D " \o
             "010050-01005D 010080-0100FA 010107-010133 010140-010178 01018A-01018B " \o
             "010280-01029C 0102A0-0102D0 0102E1-0102FB 010300-010323 01032D-01034A " \o
             "010350-010375 010380-01039D 0103A0-0103C3 0103C8-0103CF 0103D1-0103D5 " \o
             "010400-01049D 0104A0-0104A9 0104B0-0104D3 0104D8-0104FB 010500-010527 " \o
             "010530-010563 010570-01057A 01057C-01058A 01058C-010592 010594-010595 " \o
             "010597-0105A1 0105A3-0105B1 0105B3-0105B9 0105BB-0105BC 010600-010736 " \o
             "010740-010755 010760-010767 010780-010785 010787-0107B0 0107B2-0107BA " \o
             "010800-010805 010808-010808 01080A-010835 010837-010838 01083C-01083C " \o
             "01083F-010855 010858-010876 010879-01089E 0108A7-0108AF 0108E0-0108F2 " \o
             "0108F4-0108F5 0108FB-01091B 010920-010939 010980-0109B7 0109BC-0109CF " \o
             "0109D2-010A00 010A10-010A13 010A15-010A17 010A19-010A35 010A40-010A48 " \o
             "010A60-010A7E 010A80-010A9F 010AC0-010AC7 010AC9-010AE4 010AEB-010AEF " \o
             "010B00-010B35 010B40-010B55 010B58-010B72 010B78-010B91 010BA9-010BAF " \o
             "010C00-010C48 010C80-010CB2 010CC0-010CF2 010CFA-010D23 010D30-010D39 " \o
             "010E60-010E7E 010E80-010EA9 010EB0-010EB1 010F00-010F27 010F30-010F45 " \o
             "010F51-010F54 010F70-010F81 010FB0-010FCB 010FE0-010FF6 011003-011037 " \o
             "011052-01106F 011071-011072 011075-011075 011083-0110AF 0110D0-0110E8 " \o
             "0110F0-0110F9 011103-011126 011136-01113F 011144-011144 011147-011147 " \o
             "011150-011172 011176-011176 011183-0111B2 0111C1-0111C4 0111D0-0111DA " \o
             "0111DC-0111DC 0111E1-0111F4 011200-011211 011213-01122B 011280-011286 " \o
             "011288-011288 01128A-01128D 01128F-01129D 01129F-0112A8 0112B0-0112DE " \o
             "0112F0-0112F9 011305-01130C 01130F-011310 011313-011328 01132A-011330 " \o
             "011332-011333 011335-011339 01133D-01133D 011350-011350 01135D-011361 " \o
             "011400-011434 011447-01144A 011450-011459 01145F-011461 011480-0114AF " \o
             "0114C4-0114C5 0114C7-0114C7 0114D0-0114D9 011580-0115AE 0115D8-0115DB " \o
             "011600-01162F 011644-011644 011650-011659 011680-0116AA 0116B8-0116B8 " \o
             "0116C0-0116C9 011700-01171A 011730-01173B 011740-011746 011800-01182B " \o
             "0118A0-0118F2 0118FF-011906 011909-011909 01190C-011913 011915-011916 " \o
             "011918-01192F 01193F-01193F 011941-011941 011950-011959 0119A0-0119A7 " \o
             "0119AA-0119D0 0119E1-0119E1 0119E3-0119E3 011A00-011A00 011A0B-011A32 " \o
             "011A3A-011A3A 011A50-011A50 011A5C-011A89 011A9D-011A9D 011AB0-011AF8 " \o
             "011C00-011C08 011C0A-011C2E 011C40-011C40 011C50-011C6C 011C72-011C8F " \o
             "011D00-011D06 011D08-011D09 011D0B-011D30 011D46-011D46 011D50-011D59 " \o
             "011D60-011D65 011D67-011D68 011D6A-011D89 011D98-011D98 011DA0-011DA9 " \o
             "011EE0-011EF2 011FB0-011FB0 011FC0-011FD4 012000-012399 012400-01246E " \o
             "012480-012543 012F90-012FF0 013000-01342E 014400-014646 016800-016A38 " \o
             "016A40-016A5E 016A60-016A69 016A70-016ABE 016AC0-016AC9 016AD0-016AED " \o
             "016B00-016B2F 016B40-016B43 016B50-016B59 016B5B-016B61 016B63-016B77 " \o
             "016B7D-016B8F 016E40-016E96 016F00-016F4A 016F50-016F50 016F93-016F9F " \o
             "016FE0-016FE1 016FE3-016FE3 017000-0187F7 018800-018CD5 018D00-018D08 " \o
             "01AFF0-01AFF3 01AFF5-01AFFB 01AFFD-01AFFE 01B000-01B122 01B150-01B152 " \o
             "01B164-01B167 01B170-01B2FB 01BC00-01BC6A 01BC70-01BC7C 01BC80-01BC88 " \o
             "01BC90-01BC99 01D2E0-01D2F3 01D360-01D378 01D400-01D454 01D456-01D49C " \o
             "01D49E-01D49F 01D4A2-01D4A2 01D4A5-01D4A6 01D4A9-01D4AC 01D4AE-01D4B9 " \o
             "01D4BB-01D4BB 01D4BD-01D4C3 01D4C5-01D505 01D507-01D50A 01D50D-01D514 " \o
             "01D516-01D51C 01D51E-01D539 01D53B-01D53E 01D540-01D544 01D546-01D546 " \o
             "01D54A-01D550 01D552-01D6A5 01D6A8-01D6C0 01D6C2-01D6DA 01D6DC-01D6FA " \o
             "01D6FC-01D714 01D716-01D734 01D736-01D74E 01D750-01D76E 01D770-01D788 " \o
             "01D78A-01D7A8 01D7AA-01D7C2 01D7C4-01D7CB 01D7CE-01D7FF 01DF00-01DF1E " \o
             "01E100-01E12C 01E137-01E13D 01E140-01E149 01E14E-01E14E 01E290-01E2AD " \o
             "01E2C0-01E2EB 01E2F0-01E2F9 01E7E0-01E7E6 01E7E8-01E7EB 01E7ED-01E7EE " \o
             "01E7F0-01E7FE 01E800-01E8C4 01E8C7-01E8CF 01E900-01E943 01E94B-01E94B " \o
             "01E950-01E959 01EC71-01ECAB 01ECAD-01ECAF 01ECB1-01ECB4 01ED01-01ED2D " \o
             "01ED2F-01ED3D 01EE00-01EE03 01EE05-01EE1F 01EE21-01EE22 01EE24-01EE24 " \o
             "01EE27-01EE27 01EE29-01EE32 01EE34-01EE37 01EE39-01EE39 01EE3B-01EE3B " \o
             "01EE42-01EE42 01EE47-01EE47 01EE49-01EE49 01EE4B-01EE4B 01EE4D-01EE4F " \o
             "01EE51-01EE52 01EE54-01EE54 01EE57-01EE57 01EE59-01EE59 01EE5B-01EE5B " \o
             "01EE5D-01EE5D 01EE5F-01EE5F 01EE61-01EE62 01EE64-01EE64 01EE67-01EE6A " \o
             "01EE6C-01EE72 01EE74-01EE77 01EE79-01EE7C 01EE7E-01EE7E 01EE80-01EE89 " \o
             "01EE8B-01EE9B 01EEA1-01EEA3 01EEA5-01EEA9 01EEAB-01EEBB 01F100-01F10C " \o
             "01FBF0-01FBF9 020000-02A6DF 02A700-02B738 02B740-02B81D 02B820-02CEA1 " \o
             "02CEB0-02EBE0 02F800-02FA1D 030000-03134A ")

\* the letters of U+0080..U+00FF that are in neither Latin-1 table
OtherLetterSet ==
    {"ª","µ","º","ß","ÿ"}

\* str.isdigit() beyond the decimals, and str.isnumeric() beyond those, up
\* to U+00FF
SuperscriptSet == {"²","³","¹"}

FractionSet == {"¼","½","¾"}

\* str.isalnum() beyond ASCII, up to U+00FF
AlnumSet ==
    OtherLetterSet \cup Latin1UpperSet \cup Latin1LowerSet
        \cup SuperscriptSet \cup FractionSet

IsSpace(c) ==
    IF IsNamed(c) THEN InRanges(CodePoint(c), SpaceRanges) ELSE c \in SpaceSet

\* [0-9]
IsAsciiDigit(c) == c \in DigitSet

\* \d
IsDecimal(c) ==
    IF IsNamed(c) THEN InRanges(CodePoint(c), DecimalRanges) ELSE c \in DigitSet

\* str.isdigit()
IsDigit(c) ==
    IF IsNamed(c) THEN InRanges(CodePoint(c), DigitRanges)
    ELSE c \in DigitSet \/ c \in SuperscriptSet

\* [a-zA-Z]
IsAsciiAlpha(c) == c \in UpperSet \/ c \in LowerSet

\* [a-zA-Z0-9]
IsAsciiAlnum(c) == IsAsciiAlpha(c) \/ IsAsciiDigit(c)

\* [a-zA-Z0-9_]
IsAsciiWordChar(c) == IsAsciiAlnum(c) \/ c = "_"

\* [A-Z] under re.IGNORECASE
IsLetterIgnoreCase(c) ==
    IsAsciiAlpha(c) \/ c \in {DottedCapitalI, DotlessI, LongS, KelvinSign}

\* str.isalnum()
IsAlnum(c) ==
    IF IsNamed(c) THEN InRanges(CodePoint(c), AlnumRanges)
    ELSE IsAsciiAlnum(c) \/ c \in AlnumSet

\* the regular expressions' \w
IsWordChar(c) == IsAlnum(c) \/ c = "_"

\* the one-character lowercases <<first, last, step, shift>>: every step-th
\* code point from first to last has the code point shift further as its
\* lowercase
LowerRuns ==
    RunsOf("000041-00005A/1>000061 0000C0-0000D6/1>0000E0 0000D8-0000DE/1>0000F8 " \o
           "000100-00012E/2>000101 000132-000136/2>000133 000139-000147/2>00013A " \o
           "00014A-000176/2>00014B 000178-000178/1>0000FF 000179-00017D/2>00017A " \o
           "000181-000181/1>000253 000182-000184/2>000183 000186-000186/1>000254 " \o
           "000187-000187/1>000188 000189-00018A/1>000256 00018B-00018B/1>00018C " \o
           "00018E-00018E/1>0001DD 00018F-00018F/1>000259 000190-000190/1>00025B " \o
           "000191-000191/1>000192 000193-000193/1>000260 000194-000194/1>000263 " \o
           "000196-000196/1>000269 000197-000197/1>000268 000198-000198/1>000199 " \o
           "00019C-00019C/1>00026F 00019D-00019D/1>000272 00019F-00019F/1>000275 " \o
           "0001A0-0001A4/2>0001A1 0001A6-0001A6/1>000280 0001A7-0001A7/1>0001A8 " \o
           "0001A9-0001A9/1>000283 0001AC-0001AC/1>0001AD 0001AE-0001AE/1>000288 " \o
           "0001AF-0001AF/1>0001B0 0001B1-0001B2/1>00028A 0001B3-0001B5/2>0001B4 " \o
           "0001B7-0001B7/1>000292 0001B8-0001B8/1>0001B9 0001BC-0001BC/1>0001BD " \o
           "0001C4-0001C4/1>0001C6 0001C5-0001C5/1>0001C6 0001C7-0001C7/1>0001C9 " \o
           "0001C8-0001C8/1>0001C9 0001CA-0001CA/1>0001CC 0001CB-0001DB/2>0001CC " \o
           "0001DE-0001EE/2>0001DF 0001F1-0001F1/1>0001F3 0001F2-0001F4/2>0001F3 " \o
           "0001F6-0001F6/1>000195 0001F7-0001F7/1>0001BF 0001F8-00021E/2>0001F9 " \o
           "000220-000220/1>00019E 000222-000232/2>000223 00023A-00023A/1>002C65 " \o
           "00023B-00023B/1>00023C 00023D-00023D/1>00019A 00023E-00023E/1>002C66 " \o
           "000241-000241/1>000242 000243-000243/1>000180 000244-000244/1>000289 " \o
           "000245-000245/1>00028C 000246-00024E/2>000247 000370-000372/2>000371 " \o
           "000376-000376/1>000377 00037F-00037F/1>0003F3 000386-000386/1>0003AC " \o
           "000388-00038A/1>0003AD 00038C-00038C/1>0003CC 00038E-00038F/1>0003CD " \o
           "000391-0003A1/1>0003B1 0003A3-0003AB/1>0003C3 0003CF-0003CF/1>0003D7 " \o
           "0003D8-0003EE/2>0003D9 0003F4-0003F4/1>0003B8 0003F7-0003F7/1>0003F8 " \o
           "0003F9-0003F9/1>0003F2 0003FA-0003FA/1>0003FB 0003FD-0003FF/1>00037B " \o
           "000400-00040F/1>000450 000410-00042F/1>000430 000460-000480/2>000461 " \o
           "00048A-0004BE/2>00048B 0004C0-0004C0/1>0004CF 0004C1-0004CD/2>0004C2 " \o
           "0004D0-00052E/2>0004D1 000531-000556/1>000561 0010A0-0010C5/1>002D00 " \o
           "0010C7-0010C7/1>002D27 0010CD-0010CD/1>002D2D 0013A0-0013EF/1>00AB70 " \o
           "0013F0-0013F5/1>0013F8 001C90-001CBA/1>0010D0 001CBD-001CBF/1>0010FD " \o
           "001E00-001E94/2>001E01 001E9E-001E9E/1>0000DF 001EA0-001EFE/2>001EA1 " \o
           "001F08-001F0F/1>001F00 001F18-001F1D/1>001F10 001F28-001F2F/1>001F20 " \o
           "001F38-001F3F/1>001F30 001F48-001F4D/1>001F40 001F59-001F5F/2>001F51 " \o
           "001F68-001F6F/1>001F60 001F88-001F8F/1>001F80 001F98-001F9F/1>001F90 " \o
           "001FA8-001FAF/1>001FA0 001FB8-001FB9/1>001FB0 001FBA-001FBB/1>001F70 " \o
           "001FBC-001FBC/1>001FB3 001FC8-001FCB/1>001F72 001FCC-001FCC/1>001FC3 " \o
           "001FD8-001FD9/1>001FD0 001FDA-001FDB/1>001F76 001FE8-001FE9/1>001FE0 " \o
           "001FEA-001FEB/1>001F7A 001FEC-001FEC/1>001FE5 001FF8-001FF9/1>001F78 " \o
           "001FFA-001FFB/1>001F7C 001FFC-001FFC/1>001FF3 002126-002126/1>0003C9 " \o
           "00212A-00212A/1>00006B 00212B-00212B/1>0000E5 002132-002132/1>00214E " \o
           "002160-00216F/1>002170 002183-002183/1>002184 0024B6-0024CF/1>0024D0 " \o
           "002C00-002C2F/1>002C30 002C60-002C60/1>002C61 002C62-002C62/1>00026B " \o
           "002C63-002C63/1>001D7D 002C64-002C64/1>00027D 002C67-002C6B/2>002C68 " \o
           "002C6D-002C6D/1>000251 002C6E-002C6E/1>000271 002C6F-002C6F/1>000250 " \o
           "002C70-002C70/1>000252 002C72-002C72/1>002C73 002C75-002C75/1>002C76 " \o
           "002C7E-002C7F/1>00023F 002C80-002CE2/2>002C81 002CEB-002CED/2>002CEC " \o
           "002CF2-002CF2/1>002CF3 00A640-00A66C/2>00A641 00A680-00A69A/2>00A681 " \o
           "00A722-00A72E/2>00A723 00A732-00A76E/2>00A733 00A779-00A77B/2>00A77A " \o
           "00A77D-00A77D/1>001D79 00A77E-00A786/2>00A77F 00A78B-00A78B/1>00A78C " \o
           "00A78D-00A78D/1>000265 00A790-00A792/2>00A791 00A796-00A7A8/2>00A797 " \o
           "00A7AA-00A7AA/1>000266 00A7AB-00A7AB/1>00025C 00A7AC-00A7AC/1>000261 " \o
           "00A7AD-00A7AD/1>00026C 00A7AE-00A7AE/1>00026A 00A7B0-00A7B0/1>00029E " \o
           "00A7B1-00A7B1/1>000287 00A7B2-00A7B2/1>00029D 00A7B3-00A7B3/1>00AB53 " \o
           "00A7B4-00A7C2/2>00A7B5 00A7C4-00A7C4/1>00A794 00A7C5-00A7C5/1>000282 " \o
           "00A7C6-00A7C6/1>001D8E 00A7C7-00A7C9/2>00A7C8 00A7D0-00A7D0/1>00A7D1 " \o
           "00A7D6-00A7D8/2>00A7D7 00A7F5-00A7F5/1>00A7F6 00FF21-00FF3A/1>00FF41 " \o
           "010400-010427/1>010428 0104B0-0104D3/1>0104D8 010570-010594/2>010597 " \o
           "010571-010579/2>010598 01057D-010589/2>0105A4 01058D-010591/2>0105B4 " \o
           "010595-010595/1>0105BC 010C80-010CB2/1>010CC0 0118A0-0118BF/1>0118C0 " \o
           "016E40-016E5F/1>016E60 01E900-01E921/1>01E922 ")

\* the one-character uppercases, in the same way
UpperRuns ==
    RunsOf("000061-00007A/1>000041 0000B5-0000B5/1>00039C 0000E0-0000F6/1>0000C0 " \o
           "0000F8-0000FE/1>0000D8 0000FF-0000FF/1>000178 000101-00012F/2>000100 " \o
           "000131-000131/1>000049 000133-000137/2>000132 00013A-000148/2>000139 " \o
           "00014B-000177/2>00014A 00017A-00017E/2>000179 00017F-00017F/1>000053 " \o
           "000180-000180/1>000243 000183-000185/2>000182 000188-000188/1>000187 " \o
           "00018C-00018C/1>00018B 000192-000192/1>000191 000195-000195/1>0001F6 " \o
           "000199-000199/1>000198 00019A-00019A/1>00023D 00019E-00019E/1>000220 " \o
           "0001A1-0001A5/2>0001A0 0001A8-0001A8/1>0001A7 0001AD-0001AD/1>0001AC " \o
           "0001B0-0001B0/1>0001AF 0001B4-0001B6/2>0001B3 0001B9-0001B9/1>0001B8 " \o
           "0001BD-0001BD/1>0001BC 0001BF-0001BF/1>0001F7 0001C5-0001C5/1>0001C4 " \o
           "0001C6-0001C6/1>0001C4 0001C8-0001C8/1>0001C7 0001C9-0001C9/1>0001C7 " \o
           "0001CB-0001CB/1>0001CA 0001CC-0001CC/1>0001CA 0001CE-0001DC/2>0001CD " \o
           "0001DD-0001DD/1>00018E 0001DF-0001EF/2>0001DE 0001F2-0001F2/1>0001F1 " \o
           "0001F3-0001F3/1>0001F1 0001F5-0001F5/1>0001F4 0001F9-00021F/2>0001F8 " \o
           "000223-000233/2>000222 00023C-00023C/1>00023B 00023F-000240/1>002C7E " \o
           "000242-000242/1>000241 000247-00024F/2>000246 000250-000250/1>002C6F " \o
           "000251-000251/1>002C6D 000252-000252/1>002C70 000253-000253/1>000181 " \o
           "000254-000254/1>000186 000256-000257/1>000189 000259-000259/1>00018F " \o
           "00025B-00025B/1>000190 00025C-00025C/1>00A7AB 000260-000260/1>000193 " \o
           "000261-000261/1>00A7AC 000263-000263/1>000194 000265-000265/1>00A78D " \o
           "000266-000266/1>00A7AA 000268-000268/1>000197 000269-000269/1>000196 " \o
           "00026A-00026A/1>00A7AE 00026B-00026B/1>002C62 00026C-00026C/1>00A7AD " \o
           "00026F-00026F/1>00019C 000271-000271/1>002C6E 000272-000272/1>00019D " \o
           "000275-000275/1>00019F 00027D-00027D/1>002C64 000280-000280/1>0001A6 " \o
           "000282-000282/1>00A7C5 000283-000283/1>0001A9 000287-000287/1>00A7B1 " \o
           "000288-000288/1>0001AE 000289-000289/1>000244 00028A-00028B/1>0001B1 " \o
           "00028C-00028C/1>000245 000292-000292/1>0001B7 00029D-00029D/1>00A7B2 " \o
           "00029E-00029E/1>00A7B0 000345-000345/1>000399 000371-000373/2>000370 " \o
           "000377-000377/1>000376 00037B-00037D/1>0003FD 0003AC-0003AC/1>000386 " \o
           "0003AD-0003AF/1>000388 0003B1-0003C1/1>000391 0003C2-0003C2/1>0003A3 " \o
           "0003C3-0003CB/1>0003A3 0003CC-0003CC/1>00038C 0003CD-0003CE/1>00038E " \o
           "0003D0-0003D0/1>000392 0003D1-0003D1/1>000398 0003D5-0003D5/1>0003A6 " \o
           "0003D6-0003D6/1>0003A0 0003D7-0003D7/1>0003CF 0003D9-0003EF/2>0003D8 " \o
           "0003F0-0003F0/1>00039A 0003F1-0003F1/1>0003A1 0003F2-0003F2/1>0003F9 " \o
           "0003F3-0003F3/1>00037F 0003F5-0003F5/1>000395 0003F8-0003F8/1>0003F7 " \o
           "0003FB-0003FB/1>0003FA 000430-00044F/1>000410 000450-00045F/1>000400 " \o
           "000461-000481/2>000460 00048B-0004BF/2>00048A 0004C2-0004CE/2>0004C1 " \o
           "0004CF-0004CF/1>0004C0 0004D1-00052F/2>0004D0 000561-000586/1>000531 " \o
           "0010D0-0010FA/1>001C90 0010FD-0010FF/1>001CBD 0013F8-0013FD/1>0013F0 " \o
           "001C80-001C80/1>000412 001C81-001C81/1>000414 001C82-001C82/1>00041E " \o
           "001C83-001C84/1>000421 001C85-001C85/1>000422 001C86-001C86/1>00042A " \o
           "001C87-001C87/1>000462 001C88-001C88/1>00A64A 001D79-001D79/1>00A77D " \o
           "001D7D-001D7D/1>002C63 001D8E-001D8E/1>00A7C6 001E01-001E95/2>001E00 " \o
           "001E9B-001E9B/1>001E60 001EA1-001EFF/2>001EA0 001F00-001F07/1>001F08 " \o
           "001F10-001F15/1>001F18 001F20-001F27/1>001F28 001F30-001F37/1>001F38 " \o
           "001F40-001F45/1>001F48 001F51-001F57/2>001F59 001F60-001F67/1>001F68 " \o
           "001F70-001F71/1>001FBA 001F72-001F75/1>001FC8 001F76-001F77/1>001FDA " \o
           "001F78-001F79/1>001FF8 001F7A-001F7B/1>001FEA 001F7C-001F7D/1>001FFA " \o
           "001FB0-001FB1/1>001FB8 001FBE-001FBE/1>000399 001FD0-001FD1/1>001FD8 " \o
           "001FE0-001FE1/1>001FE8 001FE5-001FE5/1>001FEC 00214E-00214E/1>002132 " \o
           "002170-00217F/1>002160 002184-002184/1>002183 0024D0-0024E9/1>0024B6 " \o
           "002C30-002C5F/1>002C00 002C61-002C61/1>002C60 002C65-002C65/1>00023A " \o
           "002C66-002C66/1>00023E 002C68-002C6C/2>002C67 002C73-002C73/1>002C72 " \o
           "002C76-002C76/1>002C75 002C81-002CE3/2>002C80 002CEC-002CEE/2>002CEB " \o
           "002CF3-002CF3/1>002CF2 002D00-002D25/1>0010A0 002D27-002D27/1>0010C7 " \o
           "002D2D-002D2D/1>0010CD 00A641-00A66D/2>00A640 00A681-00A69B/2>00A680 " \o
           "00A723-00A72F/2>00A722 00A733-00A76F/2>00A732 00A77A-00A77C/2>00A779 " \o
           "00A77F-00A787/2>00A77E 00A78C-00A78C/1>00A78B 00A791-00A793/2>00A790 " \o
           "00A794-00A794/1>00A7C4 00A797-00A7A9/2>00A796 00A7B5-00A7C3/2>00A7B4 " \o
           "00A7C8-00A7CA/2>00A7C7 00A7D1-00A7D1/1>00A7D0 00A7D7-00A7D9/2>00A7D6 " \o
           "00A7F6-00A7F6/1>00A7F5 00AB53-00AB53/1>00A7B3 00AB70-00ABBF/1>0013A0 " \o
           "00FF41-00FF5A/1>00FF21 010428-01044F/1>010400 0104D8-0104FB/1>0104B0 " \o
           "010597-0105BB/2>010570 010598-0105A0/2>010571 0105A4-0105B0/2>01057D " \o
           "0105B4-0105B8/2>01058D 0105BC-0105BC/1>010595 010CC0-010CF2/1>010C80 " \o
           "0118C0-0118DF/1>0118A0 016E60-016E7F/1>016E40 01E922-01E943/1>01E900 ")

\* the uppercases of more than one character: <<code point, uppercase>>
UpperSpecial ==
    SpecialsOf("0000DF>2:000053,000053,000000 000149>2:0002BC,00004E,000000 " \o
               "0001F0>2:00004A,00030C,000000 000390>3:000399,000308,000301 " \o
               "0003B0>3:0003A5,000308,000301 000587>2:000535,000552,000000 " \o
               "001E96>2:000048,000331,000000 001E97>2:000054,000308,000000 " \o
               "001E98>2:000057,00030A,000000 001E99>2:000059,00030A,000000 " \o
               "001E9A>2:000041,0002BE,000000 001F50>2:0003A5,000313,000000 " \o
               "001F52>3:0003A5,000313,000300 001F54>3:0003A5,000313,000301 " \o
               "001F56>3:0003A5,000313,000342 001F80>2:001F08,000399,000000 " \o
               "001F81>2:001F09,000399,000000 001F82>2:001F0A,000399,000000 " \o
               "001F83>2:001F0B,000399,000000 001F84>2:001F0C,000399,000000 " \o
               "001F85>2:001F0D,000399,000000 001F86>2:001F0E,000399,000000 " \o
               "001F87>2:001F0F,000399,000000 001F88>2:001F08,000399,000000 " \o
               "001F89>2:001F09,000399,000000 001F8A>2:001F0A,000399,000000 " \o
               "001F8B>2:001F0B,000399,000000 001F8C>2:001F0C,000399,000000 " \o
               "001F8D>2:001F0D,000399,000000 001F8E>2:001F0E,000399,000000 " \o
               "001F8F>2:001F0F,000399,000000 001F90>2:001F28,000399,000000 " \o
               "001F91>2:001F29,000399,000000 001F92>2:001F2A,000399,000000 " \o
               "001F93>2:001F2B,000399,000000 001F94>2:001F2C,000399,000000 " \o
               "001F95>2:001F2D,000399,000000 001F96>2:001F2E,000399,000000 " \o
               "001F97>2:001F2F,000399,000000 001F98>2:001F28,000399,000000 " \o
               "001F99>2:001F29,000399,000000 001F9A>2:001F2A,000399,000000 " \o
               "001F9B>2:001F2B,000399,000000 001F9C>2:001F2C,000399,000000 " \o
               "001F9D>2:001F2D,000399,000000 001F9E>2:001F2E,000399,000000 " \o
               "001F9F>2:001F2F,000399,000000 001FA0>2:001F68,000399,000000 " \o
               "001FA1>2:001F69,000399,000000 001FA2>2:001F6A,000399,000000 " \o
               "001FA3>2:001F6B,000399,000000 001FA4>2:001F6C,000399,000000 " \o
               "001FA5>2:001F6D,000399,000000 001FA6>2:001F6E,000399,000000 " \o
               "001FA7>2:001F6F,000399,000000 001FA8>2:001F68,000399,000000 " \o
               "001FA9>2:001F69,000399,000000 001FAA>2:001F6A,000399,000000 " \o
               "001FAB>2:001F6B,000399,000000 001FAC>2:001F6C,000399,000000 " \o
               "001FAD>2:001F6D,000399,000000 001FAE>2:001F6E,000399,000000 " \o
               "001FAF>2:001F6F,000399,000000 001FB2>2:001FBA,000399,000000 " \o
               "001FB3>2:000391,000399,000000 001FB4>2:000386,000399,000000 " \o
               "001FB6>2:000391,000342,000000 001FB7>3:000391,000342,000399 " \o
               "001FBC>2:000391,000399,000000 001FC2>2:001FCA,000399,000000 " \o
               "001FC3>2:000397,000399,000000 001FC4>2:000389,000399,000000 " \o
               "001FC6>2:000397,000342,000000 001FC7>3:000397,000342,000399 " \o
               "001FCC>2:000397,000399,000000 001FD2>3:000399,000308,000300 " \o
               "001FD3>3:000399,000308,000301 001FD6>2:000399,000342,000000 " \o
               "001FD7>3:000399,000308,000342 001FE2>3:0003A5,000308,000300 " \o
               "001FE3>3:0003A5,000308,000301 001FE4>2:0003A1,000313,000000 " \o
               "001FE6>2:0003A5,000342,000000 001FE7>3:0003A5,000308,000342 " \o
               "001FF2>2:001FFA,000399,000000 001FF3>2:0003A9,000399,000000 " \o
               "001FF4>2:00038F,000399,000000 001FF6>2:0003A9,000342,000000 " \o
               "001FF7>3:0003A9,000342,000399 001FFC>2:0003A9,000399,000000 " \o
               "00FB00>2:000046,000046,000000 00FB01>2:000046,000049,000000 " \o
               "00FB02>2:000046,00004C,000000 00FB03>3:000046,000046,000049 " \o
               "00FB04>3:000046,000046,00004C 00FB05>2:000053,000054,000000 " \o
               "00FB06>2:000053,000054,000000 00FB13>2:000544,000546,000000 " \o
               "00FB14>2:000544,000535,000000 00FB15>2:000544,00053B,000000 " \o
               "00FB16>2:00054E,000546,000000 00FB17>2:000544,00053D,000000 ")

\* the code points re.IGNORECASE takes for one another beyond what their
\* lowercases say, the least of each class first (re._casefix)
FoldClasses ==
    {<<105,305>>,<<115,383>>,<<181,956>>,<<837,953,8126>>,<<912,8147>>,
     <<944,8163>>,<<946,976>>,<<949,1013>>,<<952,977>>,<<954,1008>>,
     <<960,982>>,<<961,1009>>,<<962,963>>,<<966,981>>,<<1074,7296>>,
     <<1076,7297>>,<<1086,7298>>,<<1089,7299>>,<<1090,7300,7301>>,
     <<1098,7302>>,<<1123,7303>>,<<7304,42571>>,<<7777,7835>>,
     <<64261,64262>>}

\* the characters str.lower() skips when it looks around a capital sigma
\* (Case_Ignorable), and the cased characters among the others
CaseIgnorableRanges ==
    RangesOf("000027-000027 00002E-00002E 00003A-00003A 00005E-00005E 000060-000060 " \o
             "0000A8-0000A8 0000AD-0000AD 0000AF-0000AF 0000B4-0000B4 0000B7-0000B8 " \o
             "0002B0-00036F 000374-000375 00037A-00037A 000384-000385 000387-000387 " \o
             "000483-000489 000559-000559 00055F-00055F 000591-0005BD 0005BF-0005BF " \o
             "0005C1-0005C2 0005C4-0005C5 0005C7-0005C7 0005F4-0005F4 000600-000605 " \o
             "000610-00061A 00061C-00061C 000640-000640 00064B-00065F 000670-000670 " \o
             "0006D6-0006DD 0006DF-0006E8 0006EA-0006ED 00070F-00070F 000711-000711 " \o
             "000730-00074A 0007A6-0007B0 0007EB-0007F5 0007FA-0007FA 0007FD-0007FD " \o
             "000816-00082D 000859-00085B 000888-000888 000890-000891 000898-00089F " \o
             "0008C9-000902 00093A-00093A 00093C-00093C 000941-000948 00094D-00094D " \o
             "000951-000957 000962-000963 000971-000971 000981-000981 0009BC-0009BC " \o
             "0009C1-0009C4 0009CD-0009CD 0009E2-0009E3 0009FE-0009FE 000A01-000A02 " \o
             "000A3C-000A3C 000A41-000A42 000A47-000A48 000A4B-000A4D 000A51-000A51 " \o
             "000A70-000A71 000A75-000A75 000A81-000A82 000ABC-000ABC 000AC1-000AC5 " \o
             "000AC7-000AC8 000ACD-000ACD 000AE2-000AE3 000AFA-000AFF 000B01-000B01 " \o
             "000B3C-000B3C 000B3F-000B3F 000B41-000B44 000B4D-000B4D 000B55-000B56 " \o
             "000B62-000B63 000B82-000B82 000BC0-000BC0 000BCD-000BCD 000C00-000C00 " \o
             "000C04-000C04 000C3C-000C3C 000C3E-000C40 000C46-000C48 000C4A-000C4D " \o
             "000C55-000C56 000C62-000C63 000C81-000C81 000CBC-000CBC 000CBF-000CBF " \o
             "000CC6-000CC6 000CCC-000CCD 000CE2-000CE3 000D00-000D01 000D3B-000D3C " \o
             "000D41-000D44 000D4D-000D4D 000D62-000D63 000D81-000D81 000DCA-000DCA " \o
             "000DD2-000DD4 000DD6-000DD6 000E31-000E31 000E34-000E3A 000E46-000E4E " \o
             "000EB1-000EB1 000EB4-000EBC 000EC6-000EC6 000EC8-000ECD 000F18-000F19 " \o
             "000F35-000F35 000F37-000F37 000F39-000F39 000F71-000F7E 000F80-000F84 " \o
             "000F86-000F87 000F8D-000F97 000F99-000FBC 000FC6-000FC6 00102D-001030 " \o
             "001032-001037 001039-00103A 00103D-00103E 001058-001059 00105E-001060 " \o
             "001071-001074 001082-001082 001085-001086 00108D-00108D 00109D-00109D " \o
             "0010FC-0010FC 00135D-00135F 001712-001714 001732-001733 001752-001753 " \o
             "001772-001773 0017B4-0017B5 0017B7-0017BD 0017C6-0017C6 0017C9-0017D3 " \o
             "0017D7-0017D7 0017DD-0017DD 00180B-00180F 001843-001843 001885-001886 " \o
             "0018A9-0018A9 001920-001922 001927-001928 001932-001932 001939-00193B " \o
             "001A17-001A18 001A1B-001A1B 001A56-001A56 001A58-001A5E 001A60-001A60 " \o
             "001A62-001A62 001A65-001A6C 001A73-001A7C 001A7F-001A7F 001AA7-001AA7 " \o
             "001AB0-001ACE 001B00-001B03 001B34-001B34 001B36-001B3A 001B3C-001B3C " \o
             "001B42-001B42 001B6B-001B73 001B80-001B81 001BA2-001BA5 001BA8-001BA9 " \o
             "001BAB-001BAD 001BE6-001BE6 001BE8-001BE9 001BED-001BED 001BEF-001BF1 " \o
             "001C2C-001C33 001C36-001C37 001C78-001C7D 001CD0-001CD2 001CD4-001CE0 " \o
             "001CE2-001CE8 001CED-001CED 001CF4-001CF4 001CF8-001CF9 001D2C-001D6A " \o
             "001D78-001D78 001D9B-001DFF 001FBD-001FBD 001FBF-001FC1 001FCD-001FCF " \o
             "001FDD-001FDF 001FED-001FEF 001FFD-001FFE 00200B-00200F 002018-002019 " \o
             "002024-002024 002027-002027 00202A-00202E 002060-002064 002066-00206F " \o
             "002071-002071 00207F-00207F 002090-00209C 0020D0-0020F0 002C7C-002C7D " \o
             "002CEF-002CF1 002D6F-002D6F 002D7F-002D7F 002DE0-002DFF 002E2F-002E2F " \o
             "003005-003005 00302A-00302D 003031-003035 00303B-00303B 003099-00309E " \o
             "0030FC-0030FE 00A015-00A015 00A4F8-00A4FD 00A60C-00A60C 00A66F-00A672 " \o
             "00A674-00A67D 00A67F-00A67F 00A69C-00A69F 00A6F0-00A6F1 00A700-00A721 " \o
             "00A770-00A770 00A788-00A78A 00A7F2-00A7F4 00A7F8-00A7F9 00A802-00A802 " \o
             "00A806-00A806 00A80B-00A80B 00A825-00A826 00A82C-00A82C 00A8C4-00A8C5 " \o
             "00A8E0-00A8F1 00A8FF-00A8FF 00A926-00A92D 00A947-00A951 00A980-00A982 " \o
             "00A9B3-00A9B3 00A9B6-00A9B9 00A9BC-00A9BD 00A9CF-00A9CF 00A9E5-00A9E6 " \o
             "00AA29-00AA2E 00AA31-00AA32 00AA35-00AA36 00AA43-00AA43 00AA4C-00AA4C " \o
             "00AA70-00AA70 00AA7C-00AA7C 00AAB0-00AAB0 00AAB2-00AAB4 00AAB7-00AAB8 " \o
             "00AABE-00AABF 00AAC1-00AAC1 00AADD-00AADD 00AAEC-00AAED 00AAF3-00AAF4 " \o
             "00AAF6-00AAF6 00AB5B-00AB5F 00AB69-00AB6B 00ABE5-00ABE5 00ABE8-00ABE8 " \o
             "00ABED-00ABED 00FB1E-00FB1E 00FBB2-00FBC2 00FE00-00FE0F 00FE13-00FE13 " \o
             "00FE20-00FE2F 00FE52-00FE52 00FE55-00FE55 00FEFF-00FEFF 00FF07-00FF07 " \o
             "00FF0E-00FF0E 00FF1A-00FF1A 00FF3E-00FF3E 00FF40-00FF40 00FF70-00FF70 " \o
             "00FF9E-00FF9F 00FFE3-00FFE3 00FFF9-00FFFB 0101FD-0101FD 0102E0-0102E0 " \o
             "010376-01037A 010780-010785 010787-0107B0 0107B2-0107BA 010A01-010A03 " \o
             "010A05-010A06 010A0C-010A0F 010A38-010A3A 010A3F-010A3F 010AE5-010AE6 " \o
             "010D24-010D27 010EAB-010EAC 010F46-010F50 010F82-010F85 011001-011001 " \o
             "011038-011046 011070-011070 011073-011074 01107F-011081 0110B3-0110B6 " \o
             "0110B9-0110BA 0110BD-0110BD 0110C2-0110C2 0110CD-0110CD 011100-011102 " \o
             "011127-01112B 01112D-011134 011173-011173 011180-011181 0111B6-0111BE " \o
             "0111C9-0111CC 0111CF-0111CF 01122F-011231 011234-011234 011236-011237 " \o
             "01123E-01123E 0112DF-0112DF 0112E3-0112EA 011300-011301 01133B-01133C " \o
             "011340-011340 011366-01136C 011370-011374 011438-01143F 011442-011444 " \o
             "011446-011446 01145E-01145E 0114B3-0114B8 0114BA-0114BA 0114BF-0114C0 " \o
             "0114C2-0114C3 0115B2-0115B5 0115BC-0115BD 0115BF-0115C0 0115DC-0115DD " \o
             "011633-01163A 01163D-01163D 01163F-011640 0116AB-0116AB 0116AD-0116AD " \o
             "0116B0-0116B5 0116B7-0116B7 01171D-01171F 011722-011725 011727-01172B " \o
             "01182F-011837 011839-01183A 01193B-01193C 01193E-01193E 011943-011943 " \o
             "0119D4-0119D7 0119DA-0119DB 0119E0-0119E0 011A01-011A0A 011A33-011A38 " \o
             "011A3B-011A3E 011A47-011A47 011A51-011A56 011A59-011A5B 011A8A-011A96 " \o
             "011A98-011A99 011C30-011C36 011C38-011C3D 011C3F-011C3F 011C92-011CA7 " \o
             "011CAA-011CB0 011CB2-011CB3 011CB5-011CB6 011D31-011D36 011D3A-011D3A " \o
             "011D3C-011D3D 011D3F-011D45 011D47-011D47 011D90-011D91 011D95-011D95 " \o
             "011D97-011D97 011EF3-011EF4 013430-013438 016AF0-016AF4 016B30-016B36 " \o
             "016B40-016B43 016F4F-016F4F 016F8F-016F9F 016FE0-016FE1 016FE3-016FE4 " \o
             "01AFF0-01AFF3 01AFF5-01AFFB 01AFFD-01AFFE 01BC9D-01BC9E 01BCA0-01BCA3 " \o
             "01CF00-01CF2D 01CF30-01CF46 01D167-01D169 01D173-01D182 01D185-01D18B " \o
             "01D1AA-01D1AD 01D242-01D244 01DA00-01DA36 01DA3B-01DA6C 01DA75-01DA75 " \o
             "01DA84-01DA84 01DA9B-01DA9F 01DAA1-01DAAF 01E000-01E006 01E008-01E018 " \o
             "01E01B-01E021 01E023-01E024 01E026-01E02A 01E130-01E13D 01E2AE-01E2AE " \o
             "01E2EC-01E2EF 01E8D0-01E8D6 01E944-01E94B 01F3FB-01F3FF 0E0001-0E0001 " \o
             "0E0020-0E007F 0E0100-0E01EF ")

CasedRanges ==
    RangesOf("000041-00005A 000061-00007A 0000AA-0000AA 0000B5-0000B5 0000BA-0000BA " \o
             "0000C0-0000D6 0000D8-0000F6 0000F8-0001BA 0001BC-0001BF 0001C4-000293 " \o
             "000295-0002AF 000370-000373 000376-000377 00037B-00037D 00037F-00037F " \o
             "000386-000386 000388-00038A 00038C-00038C 00038E-0003A1 0003A3-0003F5 " \o
             "0003F7-000481 00048A-00052F 000531-000556 000560-000588 0010A0-0010C5 " \o
             "0010C7-0010C7 0010CD-0010CD 0010D0-0010FA 0010FD-0010FF 0013A0-0013F5 " \o
             "0013F8-0013FD 001C80-001C88 001C90-001CBA 001CBD-001CBF 001D00-001D2B " \o
             "001D6B-001D77 001D79-001D9A 001E00-001F15 001F18-001F1D 001F20-001F45 " \o
             "001F48-001F4D 001F50-001F57 001F59-001F59 001F5B-001F5B 001F5D-001F5D " \o
             "001F5F-001F7D 001F80-001FB4 001FB6-001FBC 001FBE-001FBE 001FC2-001FC4 " \o
             "001FC6-001FCC 001FD0-001FD3 001FD6-001FDB 001FE0-001FEC 001FF2-001FF4 " \o
             "001FF6-001FFC 002102-002102 002107-002107 00210A-002113 002115-002115 " \o
             "002119-00211D 002124-002124 002126-002126 002128-002128 00212A-00212D " \o
             "00212F-002134 002139-002139 00213C-00213F 002145-002149 00214E-00214E " \o
             "002160-00217F 002183-002184 0024B6-0024E9 002C00-002C7B 002C7E-002CE4 " \o
             "002CEB-002CEE 002CF2-002CF3 002D00-002D25 002D27-002D27 002D2D-002D2D " \o
             "00A640-00A66D 00A680-00A69B 00A722-00A76F 00A771-00A787 00A78B-00A78E " \o
             "00A790-00A7CA 00A7D0-00A7D1 00A7D3-00A7D3 00A7D5-00A7D9 00A7F5-00A7F6 " \o
             "00A7FA-00A7FA 00AB30-00AB5A 00AB60-00AB68 00AB70-00ABBF 00FB00-00FB06 " \o
             "00FB13-00FB17 00FF21-00FF3A 00FF41-00FF5A 010400-01044F 0104B0-0104D3 " \o
             "0104D8-0104FB 010570-01057A 01057C-01058A 01058C-010592 010594-010595 " \o
             "010597-0105A1 0105A3-0105B1 0105B3-0105B9 0105BB-0105BC 010C80-010CB2 " \o
             "010CC0-010CF2 0118A0-0118DF 016E40-016E7F 01D400-01D454 01D456-01D49C " \o
             "01D49E-01D49F 01D4A2-01D4A2 01D4A5-01D4A6 01D4A9-01D4AC 01D4AE-01D4B9 " \o
             "01D4BB-01D4BB 01D4BD-01D4C3 01D4C5-01D505 01D507-01D50A 01D50D-01D514 " \o
             "01D516-01D51C 01D51E-01D539 01D53B-01D53E 01D540-01D544 01D546-01D546 " \o
             "01D54A-01D550 01D552-01D6A5 01D6A8-01D6C0 01D6C2-01D6DA 01D6DC-01D6FA " \o
             "01D6FC-01D714 01D716-01D734 01D736-01D74E 01D750-01D76E 01D770-01D788 " \o
             "01D78A-01D7A8 01D7AA-01D7C2 01D7C4-01D7CB 01DF00-01DF09 01DF0B-01DF1E " \o
             "01E900-01E943 01F130-01F149 01F150-01F169 01F170-01F189 ")

ShiftedBy(table, n) ==
    LET hit == {r \in table : r[1] <= n /\ n <= r[2] /\ (n - r[1]) % r[3] = 0}
    IN  IF hit = {} THEN n ELSE n + (CHOOSE r \in hit : TRUE)[4]

\* chr(n).lower() and chr(n).upper(), in code points
LowerPoints(n) == IF n = 304 THEN <<105, 775>> ELSE <<ShiftedBy(LowerRuns, n)>>

UpperPointsAmong(special, n) ==
    IF special = {} THEN <<ShiftedBy(UpperRuns, n)>>
    ELSE (CHOOSE r \in special : TRUE)[2]

UpperPoints(n) == UpperPointsAmong({r \in UpperSpecial : r[1] = n}, n)

\* the code point re.IGNORECASE compares by: the one-character lowercase,
\* and the least of its class when it has one
FoldPoint(n) ==
    LET lo == LowerPoints(n)[1]
        among == {cl \in FoldClasses : \E k \in 1..Len(cl) : cl[k] = lo}
    IN  IF among = {} THEN lo ELSE (CHOOSE cl \in among : TRUE)[1]

\* the lowercase and the uppercase of a character up to U+00FF
Latin1Lower(c) ==
    IF c \in UpperSet THEN LowerChars[PlaceIn(UpperChars, c)]
    ELSE IF c \in Latin1UpperSet THEN Latin1LowerChars[PlaceIn(Latin1UpperChars, c)]
    ELSE c

Latin1Upper(c) ==
    IF c \in LowerSet THEN <<UpperChars[PlaceIn(LowerChars, c)]>>
    ELSE IF c \in Latin1LowerSet
    THEN <<Latin1UpperChars[PlaceIn(Latin1LowerChars, c)]>>
    ELSE IF c = "ß" THEN <<"S", "S">>
    ELSE IF c = "ÿ" THEN <<CapitalYDiaeresis>>
    ELSE IF c = "µ" THEN <<GreekCapitalMu>>
    ELSE <<c>>

\* the lowercase of one character as str.lower() gives it
LowerText(c) ==
    IF IsNamed(c) THEN CharsOf(LowerPoints(CodePoint(c))) ELSE <<Latin1Lower(c)>>

\* the uppercase of one character as str.upper() gives it
UpperText(c) ==
    IF IsNamed(c) THEN CharsOf(UpperPoints(CodePoint(c))) ELSE Latin1Upper(c)

\* the character re.IGNORECASE compares by
LowerChar(c) ==
    IF IsNamed(c) THEN CharOf(FoldPoint(CodePoint(c))) ELSE Latin1Lower(c)

\* what a character is to str.lower() around a capital sigma: one it skips,
\* a cased one, or neither
SigmaClassOf(n) ==
    IF InRanges(n, CaseIgnorableRanges) THEN "skipped"
    ELSE IF InRanges(n, CasedRanges) THEN "cased"
    ELSE "other"

SigmaClasses(s) == [k \in 1..Len(s) |-> SigmaClassOf(CodePoint(s[k]))]

\* str.lower() writes a capital sigma as the final sigma when a cased
\* character stands before it and none after it, the characters it skips
\* left aside
FinalSigma(classes, i) ==
    /\ \E j \in 1..(i - 1) :
          classes[j] = "cased" /\ \A k \in (j + 1)..(i - 1) : classes[k] = "skipped"
    /\ ~\E j \in (i + 1)..Len(classes) :
          classes[j] = "cased" /\ \A k \in (i + 1)..(j - 1) : classes[k] = "skipped"

\* str.isidentifier(): the first character, "_" among them, and the others
XidStartRanges ==
    RangesOf("000041-00005A 00005F-00005F 000061-00007A 0000AA-0000AA 0000B5-0000B5 " \o
             "0000BA-0000BA 0000C0-0000D6 0000D8-0000F6 0000F8-0002C1 0002C6-0002D1 " \o
             "0002E0-0002E4 0002EC-0002EC 0002EE-0002EE 000370-000374 000376-000377 " \o
             "00037B-00037D 00037F-00037F 000386-000386 000388-00038A 00038C-00038C " \o
             "00038E-0003A1 0003A3-0003F5 0003F7-000481 00048A-00052F 000531-000556 " \o
             "000559-000559 000560-000588 0005D0-0005EA 0005EF-0005F2 000620-00064A " \o
             "00066E-00066F 000671-0006D3 0006D5-0006D5 0006E5-0006E6 0006EE-0006EF " \o
             "0006FA-0006FC 0006FF-0006FF 000710-000710 000712-00072F 00074D-0007A5 " \o
             "0007B1-0007B1 0007CA-0007EA 0007F4-0007F5 0007FA-0007FA 000800-000815 " \o
             "00081A-00081A 000824-000824 000828-000828 000840-000858 000860-00086A " \o
             "000870-000887 000889-00088E 0008A0-0008C9 000904-000939 00093D-00093D " \o
             "000950-000950 000958-000961 000971-000980 000985-00098C 00098F-000990 " \o
             "000993-0009A8 0009AA-0009B0 0009B2-0009B2 0009B6-0009B9 0009BD-0009BD " \o
             "0009CE-0009CE 0009DC-0009DD 0009DF-0009E1 0009F0-0009F1 0009FC-0009FC " \o
             "000A05-000A0A 000A0F-000A10 000A13-000A28 000A2A-000A30 000A32-000A33 " \o
             "000A35-000A36 000A38-000A39 000A59-000A5C 000A5E-000A5E 000A72-000A74 " \o
             "000A85-000A8D 000A8F-000A91 000A93-000AA8 000AAA-000AB0 000AB2-000AB3 " \o
             "000AB5-000AB9 000ABD-000ABD 000AD0-000AD0 000AE0-000AE1 000AF9-000AF9 " \o
             "000B05-000B0C 000B0F-000B10 000B13-000B28 000B2A-000B30 000B32-000B33 " \o
             "000B35-000B39 000B3D-000B3D 000B5C-000B5D 000B5F-000B61 000B71-000B71 " \o
             "000B83-000B83 000B85-000B8A 000B8E-000B90 000B92-000B95 000B99-000B9A " \o
             "000B9C-000B9C 000B9E-000B9F 000BA3-000BA4 000BA8-000BAA 000BAE-000BB9 " \o
             "000BD0-000BD0 000C05-000C0C 000C0E-000C10 000C12-000C28 000C2A-000C39 " \o
             "000C3D-000C3D 000C58-000C5A 000C5D-000C5D 000C60-000C61 000C80-000C80 " \o
             "000C85-000C8C 000C8E-000C90 000C92-000CA8 000CAA-000CB3 000CB5-000CB9 " \o
             "000CBD-000CBD 000CDD-000CDE 000CE0-000CE1 000CF1-000CF2 000D04-000D0C " \o
             "000D0E-000D10 000D12-000D3A 000D3D-000D3D 000D4E-000D4E 000D54-000D56 " \o
             "000D5F-000D61 000D7A-000D7F 000D85-000D96 000D9A-000DB1 000DB3-000DBB " \o
             "000DBD-000DBD 000DC0-000DC6 000E01-000E30 000E32-000E32 000E40-000E46 " \o
             "000E81-000E82 000E84-000E84 000E86-000E8A 000E8C-000EA3 000EA5-000EA5 " \o
             "000EA7-000EB0 000EB2-000EB2 000EBD-000EBD 000EC0-000EC4 000EC6-000EC6 " \o
             "000EDC-000EDF 000F00-000F00 000F40-000F47 000F49-000F6C 000F88-000F8C " \o
             "001000-00102A 00103F-00103F 001050-001055 00105A-00105D 001061-001061 " \o
             "001065-001066 00106E-001070 001075-001081 00108E-00108E 0010A0-0010C5 " \o
             "0010C7-0010C7 0010CD-0010CD 0010D0-0010FA 0010FC-001248 00124A-00124D " \o
             "001250-001256 001258-001258 00125A-00125D 001260-001288 00128A-00128D " \o
             "001290-0012B0 0012B2-0012B5 0012B8-0012BE 0012C0-0012C0 0012C2-0012C5 " \o
             "0012C8-0012D6 0012D8-001310 001312-001315 001318-00135A 001380-00138F " \o
             "0013A0-0013F5 0013F8-0013FD 001401-00166C 00166F-00167F 001681-00169A " \o
             "0016A0-0016EA 0016EE-0016F8 001700-001711 00171F-001731 001740-001751 " \o
             "001760-00176C 00176E-001770 001780-0017B3 0017D7-0017D7 0017DC-0017DC " \o
             "001820-001878 001880-0018A8 0018AA-0018AA 0018B0-0018F5 001900-00191E " \o
             "001950-00196D 001970-001974 001980-0019AB 0019B0-0019C9 001A00-001A16 " \o
             "001A20-001A54 001AA7-001AA7 001B05-001B33 001B45-001B4C 001B83-001BA0 " \o
             "001BAE-001BAF 001BBA-001BE5 001C00-001C23 001C4D-001C4F 001C5A-001C7D " \o
             "001C80-001C88 001C90-001CBA 001CBD-001CBF 001CE9-001CEC 001CEE-001CF3 " \o
             "001CF5-001CF6 001CFA-001CFA 001D00-001DBF 001E00-001F15 001F18-001F1D " \o
             "001F20-001F45 001F48-001F4D 001F50-001F57 001F59-001F59 001F5B-001F5B " \o
             "001F5D-001F5D 001F5F-001F7D 001F80-001FB4 001FB6-001FBC 001FBE-001FBE " \o
             "001FC2-001FC4 001FC6-001FCC 001FD0-001FD3 001FD6-001FDB 001FE0-001FEC " \o
             "001FF2-001FF4 001FF6-001FFC 002071-002071 00207F-00207F 002090-00209C " \o
             "002102-002102 002107-002107 00210A-002113 002115-002115 002118-00211D " \o
             "002124-002124 002126-002126 002128-002128 00212A-002139 00213C-00213F " \o
             "002145-002149 00214E-00214E 002160-002188 002C00-002CE4 002CEB-002CEE " \o
             "002CF2-002CF3 002D00-002D25 002D27-002D27 002D2D-002D2D 002D30-002D67 " \o
             "002D6F-002D6F 002D80-002D96 002DA0-002DA6 002DA8-002DAE 002DB0-002DB6 " \o
             "002DB8-002DBE 002DC0-002DC6 002DC8-002DCE 002DD0-002DD6 002DD8-002DDE " \o
             "003005-003007 003021-003029 003031-003035 003038-00303C 003041-003096 " \o
             "00309D-00309F 0030A1-0030FA 0030FC-0030FF 003105-00312F 003131-00318E " \o
             "0031A0-0031BF 0031F0-0031FF 003400-004DBF 004E00-00A48C 00A4D0-00A4FD " \o
             "00A500-00A60C 00A610-00A61F 00A62A-00A62B 00A640-00A66E 00A67F-00A69D " \o
             "00A6A0-00A6EF 00A717-00A71F 00A722-00A788 00A78B-00A7CA 00A7D0-00A7D1 " \o
             "00A7D3-00A7D3 00A7D5-00A7D9 00A7F2-00A801 00A803-00A805 00A807-00A80A " \o
             "00A80C-00A822 00A840-00A873 00A882-00A8B3 00A8F2-00A8F7 00A8FB-00A8FB " \o
             "00A8FD-00A8FE 00A90A-00A925 00A930-00A946 00A960-00A97C 00A984-00A9B2 " \o
             "00A9CF-00A9CF 00A9E0-00A9E4 00A9E6-00A9EF 00A9FA-00A9FE 00AA00-00AA28 " \o
             "00AA40-00AA42 00AA44-00AA4B 00AA60-00AA76 00AA7A-00AA7A 00AA7E-00AAAF " \o
             "00AAB1-00AAB1 00AAB5-00AAB6 00AAB9-00AABD 00AAC0-00AAC0 00AAC2-00AAC2 " \o
             "00AADB-00AADD 00AAE0-00AAEA 00AAF2-00AAF4 00AB01-00AB06 00AB09-00AB0E " \o
             "00AB11-00AB16 00AB20-00AB26 00AB28-00AB2E 00AB30-00AB5A 00AB5C-00AB69 " \o
             "00AB70-00ABE2 00AC00-00D7A3 00D7B0-00D7C6 00D7CB-00D7FB 00F900-00FA6D " \o
             "00FA70-00FAD9 00FB00-00FB06 00FB13-00FB17 00FB1D-00FB1D 00FB1F-00FB28 " \o
             "00FB2A-00FB36 00FB38-00FB3C 00FB3E-00FB3E 00FB40-00FB41 00FB43-00FB44 " \o
             "00FB46-00FBB1 00FBD3-00FC5D 00FC64-00FD3D 00FD50-00FD8F 00FD92-00FDC7 " \o
             "00FDF0-00FDF9 00FE71-00FE71 00FE73-00FE73 00FE77-00FE77 00FE79-00FE79 " \o
             "00FE7B-00FE7B 00FE7D-00FE7D 00FE7F-00FEFC 00FF21-00FF3A 00FF41-00FF5A " \o
             "00FF66-00FF9D 00FFA0-00FFBE 00FFC2-00FFC7 00FFCA-00FFCF 00FFD2-00FFD7 " \o
             "00FFDA-00FFDC 010000-01000B 01000D-010026 010028-01003A 01003C-01003D " \o
             "01003F-01004D 010050-01005D 010080-0100FA 010140-010174 010280-01029C " \o
             "0102A0-0102D0 010300-01031F 01032D-01034A 010350-010375 010380-01039D " \o
             "0103A0-0103C3 0103C8-0103CF 0103D1-0103D5 010400-01049D 0104B0-0104D3 " \o
             "0104D8-0104FB 010500-010527 010530-010563 010570-01057A 01057C-01058A " \o
             "01058C-010592 010594-010595 010597-0105A1 0105A3-0105B1 0105B3-0105B9 " \o
             "0105BB-0105BC 010600-010736 010740-010755 010760-010767 010780-010785 " \o
             "010787-0107B0 0107B2-0107BA 010800-010805 010808-010808 01080A-010835 " \o
             "010837-010838 01083C-01083C 01083F-010855 010860-010876 010880-01089E " \o
             "0108E0-0108F2 0108F4-0108F5 010900-010915 010920-010939 010980-0109B7 " \o
             "0109BE-0109BF 010A00-010A00 010A10-010A13 010A15-010A17 010A19-010A35 " \o
             "010A60-010A7C 010A80-010A9C 010AC0-010AC7 010AC9-010AE4 010B00-010B35 " \o
             "010B40-010B55 010B60-010B72 010B80-010B91 010C00-010C48 010C80-010CB2 " \o
             "010CC0-010CF2 010D00-010D23 010E80-010EA9 010EB0-010EB1 010F00-010F1C " \o
             "010F27-010F27 010F30-010F45 010F70-010F81 010FB0-010FC4 010FE0-010FF6 " \o
             "011003-011037 011071-011072 011075-011075 011083-0110AF 0110D0-0110E8 " \o
             "011103-011126 011144-011144 011147-011147 011150-011172 011176-011176 " \o
             "011183-0111B2 0111C1-0111C4 0111DA-0111DA 0111DC-0111DC 011200-011211 " \o
             "011213-01122B 011280-011286 011288-011288 01128A-01128D 01128F-01129D " \o
             "01129F-0112A8 0112B0-0112DE 011305-01130C 01130F-011310 011313-011328 " \o
             "01132A-011330 011332-011333 011335-011339 01133D-01133D 011350-011350 " \o
             "01135D-011361 011400-011434 011447-01144A 01145F-011461 011480-0114AF " \o
             "0114C4-0114C5 0114C7-0114C7 011580-0115AE 0115D8-0115DB 011600-01162F " \o
             "011644-011644 011680-0116AA 0116B8-0116B8 011700-01171A 011740-011746 " \o
             "011800-01182B 0118A0-0118DF 0118FF-011906 011909-011909 01190C-011913 " \o
             "011915-011916 011918-01192F 01193F-01193F 011941-011941 0119A0-0119A7 " \o
             "0119AA-0119D0 0119E1-0119E1 0119E3-0119E3 011A00-011A00 011A0B-011A32 " \o
             "011A3A-011A3A 011A50-011A50 011A5C-011A89 011A9D-011A9D 011AB0-011AF8 " \o
             "011C00-011C08 011C0A-011C2E 011C40-011C40 011C72-011C8F 011D00-011D06 " \o
             "011D08-011D09 011D0B-011D30 011D46-011D46 011D60-011D65 011D67-011D68 " \o
             "011D6A-011D89 011D98-011D98 011EE0-011EF2 011FB0-011FB0 012000-012399 " \o
             "012400-01246E 012480-012543 012F90-012FF0 013000-01342E 014400-014646 " \o
             "016800-016A38 016A40-016A5E 016A70-016ABE 016AD0-016AED 016B00-016B2F " \o
             "016B40-016B43 016B63-016B77 016B7D-016B8F 016E40-016E7F 016F00-016F4A " \o
             "016F50-016F50 016F93-016F9F 016FE0-016FE1 016FE3-016FE3 017000-0187F7 " \o
             "018800-018CD5 018D00-018D08 01AFF0-01AFF3 01AFF5-01AFFB 01AFFD-01AFFE " \o
             "01B000-01B122 01B150-01B152 01B164-01B167 01B170-01B2FB 01BC00-01BC6A " \o
             "01BC70-01BC7C 01BC80-01BC88 01BC90-01BC99 01D400-01D454 01D456-01D49C " \o
             "01D49E-01D49F 01D4A2-01D4A2 01D4A5-01D4A6 01D4A9-01D4AC 01D4AE-01D4B9 " \o
             "01D4BB-01D4BB 01D4BD-01D4C3 01D4C5-01D505 01D507-01D50A 01D50D-01D514 " \o
             "01D516-01D51C 01D51E-01D539 01D53B-01D53E 01D540-01D544 01D546-01D546 " \o
             "01D54A-01D550 01D552-01D6A5 01D6A8-01D6C0 01D6C2-01D6DA 01D6DC-01D6FA " \o
             "01D6FC-01D714 01D716-01D734 01D736-01D74E 01D750-01D76E 01D770-01D788 " \o
             "01D78A-01D7A8 01D7AA-01D7C2 01D7C4-01D7CB 01DF00-01DF1E 01E100-01E12C " \o
             "01E137-01E13D 01E14E-01E14E 01E290-01E2AD 01E2C0-01E2EB 01E7E0-01E7E6 " \o
             "01E7E8-01E7EB 01E7ED-01E7EE 01E7F0-01E7FE 01E800-01E8C4 01E900-01E943 " \o
             "01E94B-01E94B 01EE00-01EE03 01EE05-01EE1F 01EE21-01EE22 01EE24-01EE24 " \o
             "01EE27-01EE27 01EE29-01EE32 01EE34-01EE37 01EE39-01EE39 01EE3B-01EE3B " \o
             "01EE42-01EE42 01EE47-01EE47 01EE49-01EE49 01EE4B-01EE4B 01EE4D-01EE4F " \o
             "01EE51-01EE52 01EE54-01EE54 01EE57-01EE57 01EE59-01EE59 01EE5B-01EE5B " \o
             "01EE5D-01EE5D 01EE5F-01EE5F 01EE61-01EE62 01EE64-01EE64 01EE67-01EE6A " \o
             "01EE6C-01EE72 01EE74-01EE77 01EE79-01EE7C 01EE7E-01EE7E 01EE80-01EE89 " \o
             "01EE8B-01EE9B 01EEA1-01EEA3 01EEA5-01EEA9 01EEAB-01EEBB 020000-02A6DF " \o
             "02A700-02B738 02B740-02B81D 02B820-02CEA1 02CEB0-02EBE0 02F800-02FA1D " \o
             "030000-03134A ")

XidContinueRanges ==
    RangesOf("000030-000039 000041-00005A 00005F-00005F 000061-00007A 0000AA-0000AA " \o
             "0000B5-0000B5 0000B7-0000B7 0000BA-0000BA 0000C0-0000D6 0000D8-0000F6 " \o
             "0000F8-0002C1 0002C6-0002D1 0002E0-0002E4 0002EC-0002EC 0002EE-0002EE " \o
             "000300-000374 000376-000377 00037B-00037D 00037F-00037F 000386-00038A " \o
             "00038C-00038C 00038E-0003A1 0003A3-0003F5 0003F7-000481 000483-000487 " \o
             "00048A-00052F 000531-000556 000559-000559 000560-000588 000591-0005BD " \o
             "0005BF-0005BF 0005C1-0005C2 0005C4-0005C5 0005C7-0005C7 0005D0-0005EA " \o
             "0005EF-0005F2 000610-00061A 000620-000669 00066E-0006D3 0006D5-0006DC " \o
             "0006DF-0006E8 0006EA-0006FC 0006FF-0006FF 000710-00074A 00074D-0007B1 " \o
             "0007C0-0007F5 0007FA-0007FA 0007FD-0007FD 000800-00082D 000840-00085B " \o
             "000860-00086A 000870-000887 000889-00088E 000898-0008E1 0008E3-000963 " \o
             "000966-00096F 000971-000983 000985-00098C 00098F-000990 000993-0009A8 " \o
             "0009AA-0009B0 0009B2-0009B2 0009B6-0009B9 0009BC-0009C4 0009C7-0009C8 " \o
             "0009CB-0009CE 0009D7-0009D7 0009DC-0009DD 0009DF-0009E3 0009E6-0009F1 " \o
             "0009FC-0009FC 0009FE-0009FE 000A01-000A03 000A05-000A0A 000A0F-000A10 " \o
             "000A13-000A28 000A2A-000A30 000A32-000A33 000A35-000A36 000A38-000A39 " \o
             "000A3C-000A3C 000A3E-000A42 000A47-000A48 000A4B-000A4D 000A51-000A51 " \o
             "000A59-000A5C 000A5E-000A5E 000A66-000A75 000A81-000A83 000A85-000A8D " \o
             "000A8F-000A91 000A93-000AA8 000AAA-000AB0 000AB2-000AB3 000AB5-000AB9 " \o
             "000ABC-000AC5 000AC7-000AC9 000ACB-000ACD 000AD0-000AD0 000AE0-000AE3 " \o
             "000AE6-000AEF 000AF9-000AFF 000B01-000B03 000B05-000B0C 000B0F-000B10 " \o
             "000B13-000B28 000B2A-000B30 000B32-000B33 000B35-000B39 000B3C-000B44 " \o
             "000B47-000B48 000B4B-000B4D 000B55-000B57 000B5C-000B5D 000B5F-000B63 " \o
             "000B66-000B6F 000B71-000B71 000B82-000B83 000B85-000B8A 000B8E-000B90 " \o
             "000B92-000B95 000B99-000B9A 000B9C-000B9C 000B9E-000B9F 000BA3-000BA4 " \o
             "000BA8-000BAA 000BAE-000BB9 000BBE-000BC2 000BC6-000BC8 000BCA-000BCD " \o
             "000BD0-000BD0 000BD7-000BD7 000BE6-000BEF 000C00-000C0C 000C0E-000C10 " \o
             "000C12-000C28 000C2A-000C39 000C3C-000C44 000C46-000C48 000C4A-000C4D " \o
             "000C55-000C56 000C58-000C5A 000C5D-000C5D 000C60-000C63 000C66-000C6F " \o
             "000C80-000C83 000C85-000C8C 000C8E-000C90 000C92-000CA8 000CAA-000CB3 " \o
             "000CB5-000CB9 000CBC-000CC4 000CC6-000CC8 000CCA-000CCD 000CD5-000CD6 " \o
             "000CDD-000CDE 000CE0-000CE3 000CE6-000CEF 000CF1-000CF2 000D00-000D0C " \o
             "000D0E-000D10 000D12-000D44 000D46-000D48 000D4A-000D4E 000D54-000D57 " \o
             "000D5F-000D63 000D66-000D6F 000D7A-000D7F 000D81-000D83 000D85-000D96 " \o
             "000D9A-000DB1 000DB3-000DBB 000DBD-000DBD 000DC0-000DC6 000DCA-000DCA " \o
             "000DCF-000DD4 000DD6-000DD6 000DD8-000DDF 000DE6-000DEF 000DF2-000DF3 " \o
             "000E01-000E3A 000E40-000E4E 000E50-000E59 000E81-000E82 000E84-000E84 " \o
             "000E86-000E8A 000E8C-000EA3 000EA5-000EA5 000EA7-000EBD 000EC0-000EC4 " \o
             "000EC6-000EC6 000EC8-000ECD 000ED0-000ED9 000EDC-000EDF 000F00-000F00 " \o
             "000F18-000F19 000F20-000F29 000F35-000F35 000F37-000F37 000F39-000F39 " \o
             "000F3E-000F47 000F49-000F6C 000F71-000F84 000F86-000F97 000F99-000FBC " \o
             "000FC6-000FC6 001000-001049 001050-00109D 0010A0-0010C5 0010C7-0010C7 " \o
             "0010CD-0010CD 0010D0-0010FA 0010FC-001248 00124A-00124D 001250-001256 " \o
             "001258-001258 00125A-00125D 001260-001288 00128A-00128D 001290-0012B0 " \o
             "0012B2-0012B5 0012B8-0012BE 0012C0-0012C0 0012C2-0012C5 0012C8-0012D6 " \o
             "0012D8-001310 001312-001315 001318-00135A 00135D-00135F 001369-001371 " \o
             "001380-00138F 0013A0-0013F5 0013F8-0013FD 001401-00166C 00166F-00167F " \o
             "001681-00169A 0016A0-0016EA 0016EE-0016F8 001700-001715 00171F-001734 " \o
             "001740-001753 001760-00176C 00176E-001770 001772-001773 001780-0017D3 " \o
             "0017D7-0017D7 0017DC-0017DD 0017E0-0017E9 00180B-00180D 00180F-001819 " \o
             "001820-001878 001880-0018AA 0018B0-0018F5 001900-00191E 001920-00192B " \o
             "001930-00193B 001946-00196D 001970-001974 001980-0019AB 0019B0-0019C9 " \o
             "0019D0-0019DA 001A00-001A1B 001A20-001A5E 001A60-001A7C 001A7F-001A89 " \o
             "001A90-001A99 001AA7-001AA7 001AB0-001ABD 001ABF-001ACE 001B00-001B4C " \o
             "001B50-001B59 001B6B-001B73 001B80-001BF3 001C00-001C37 001C40-001C49 " \o
             "001C4D-001C7D 001C80-001C88 001C90-001CBA 001CBD-001CBF 001CD0-001CD2 " \o
             "001CD4-001CFA 001D00-001F15 001F18-001F1D 001F20-001F45 001F48-001F4D " \o
             "001F50-001F57 001F59-001F59 001F5B-001F5B 001F5D-001F5D 001F5F-001F7D " \o
             "001F80-001FB4 001FB6-001FBC 001FBE-001FBE 001FC2-001FC4 001FC6-001FCC " \o
             "001FD0-001FD3 001FD6-001FDB 001FE0-001FEC 001FF2-001FF4 001FF6-001FFC " \o
             "00203F-002040 002054-002054 002071-002071 00207F-00207F 002090-00209C " \o
             "0020D0-0020DC 0020E1-0020E1 0020E5-0020F0 002102-002102 002107-002107 " \o
             "00210A-002113 002115-002115 002118-00211D 002124-002124 002126-002126 " \o
             "002128-002128 00212A-002139 00213C-00213F 002145-002149 00214E-00214E " \o
             "002160-002188 002C00-002CE4 002CEB-002CF3 002D00-002D25 002D27-002D27 " \o
             "002D2D-002D2D 002D30-002D67 002D6F-002D6F 002D7F-002D96 002DA0-002DA6 " \o
             "002DA8-002DAE 002DB0-002DB6 002DB8-002DBE 002DC0-002DC6 002DC8-002DCE " \o
             "002DD0-002DD6 002DD8-002DDE 002DE0-002DFF 003005-003007 003021-00302F " \o
             "003031-003035 003038-00303C 003041-003096 003099-00309A 00309D-00309F " \o
             "0030A1-0030FA 0030FC-0030FF 003105-00312F 003131-00318E 0031A0-0031BF " \o
             "0031F0-0031FF 003400-004DBF 004E00-00A48C 00A4D0-00A4FD 00A500-00A60C " \o
             "00A610-00A62B 00A640-00A66F 00A674-00A67D 00A67F-00A6F1 00A717-00A71F " \o
             "00A722-00A788 00A78B-00A7CA 00A7D0-00A7D1 00A7D3-00A7D3 00A7D5-00A7D9 " \o
             "00A7F2-00A827 00A82C-00A82C 00A840-00A873 00A880-00A8C5 00A8D0-00A8D9 " \o
             "00A8E0-00A8F7 00A8FB-00A8FB 00A8FD-00A92D 00A930-00A953 00A960-00A97C " \o
             "00A980-00A9C0 00A9CF-00A9D9 00A9E0-00A9FE 00AA00-00AA36 00AA40-00AA4D " \o
             "00AA50-00AA59 00AA60-00AA76 00AA7A-00AAC2 00AADB-00AADD 00AAE0-00AAEF " \o
             "00AAF2-00AAF6 00AB01-00AB06 00AB09-00AB0E 00AB11-00AB16 00AB20-00AB26 " \o
             "00AB28-00AB2E 00AB30-00AB5A 00AB5C-00AB69 00AB70-00ABEA 00ABEC-00ABED " \o
             "00ABF0-00ABF9 00AC00-00D7A3 00D7B0-00D7C6 00D7CB-00D7FB 00F900-00FA6D " \o
             "00FA70-00FAD9 00FB00-00FB06 00FB13-00FB17 00FB1D-00FB28 00FB2A-00FB36 " \o
             "00FB38-00FB3C 00FB3E-00FB3E 00FB40-00FB41 00FB43-00FB44 00FB46-00FBB1 " \o
             "00FBD3-00FC5D 00FC64-00FD3D 00FD50-00FD8F 00FD92-00FDC7 00FDF0-00FDF9 " \o
             "00FE00-00FE0F 00FE20-00FE2F 00FE33-00FE34 00FE4D-00FE4F 00FE71-00FE71 " \o
             "00FE73-00FE73 00FE77-00FE77 00FE79-00FE79 00FE7B-00FE7B 00FE7D-00FE7D " \o
             "00FE7F-00FEFC 00FF10-00FF19 00FF21-00FF3A 00FF3F-00FF3F 00FF41-00FF5A " \o
             "00FF66-00FFBE 00FFC2-00FFC7 00FFCA-00FFCF 00FFD2-00FFD7 00FFDA-00FFDC " \o
             "010000-01000B 01000D-010026 010028-01003A 01003C-01003D 01003F-01004D " \o
             "010050-01005D 010080-0100FA 010140-010174 0101FD-0101FD 010280-01029C " \o
             "0102A0-0102D0 0102E0-0102E0 010300-01031F 01032D-01034A 010350-01037A " \o
             "010380-01039D 0103A0-0103C3 0103C8-0103CF 0103D1-0103D5 010400-01049D " \o
             "0104A0-0104A9 0104B0-0104D3 0104D8-0104FB 010500-010527 010530-010563 " \o
             "010570-01057A 01057C-01058A 01058C-010592 010594-010595 010597-0105A1 " \o
             "0105A3-0105B1 0105B3-0105B9 0105BB-0105BC 010600-010736 010740-010755 " \o
             "010760-010767 010780-010785 010787-0107B0 0107B2-0107BA 010800-010805 " \o
             "010808-010808 01080A-010835 010837-010838 01083C-01083C 01083F-010855 " \o
             "010860-010876 010880-01089E 0108E0-0108F2 0108F4-0108F5 010900-010915 " \o
             "010920-010939 010980-0109B7 0109BE-0109BF 010A00-010A03 010A05-010A06 " \o
             "010A0C-010A13 010A15-010A17 010A19-010A35 010A38-010A3A 010A3F-010A3F " \o
             "010A60-010A7C 010A80-010A9C 010AC0-010AC7 010AC9-010AE6 010B00-010B35 " \o
             "010B40-010B55 010B60-010B72 010B80-010B91 010C00-010C48 010C80-010CB2 " \o
             "010CC0-010CF2 010D00-010D27 010D30-010D39 010E80-010EA9 010EAB-010EAC " \o
             "010EB0-010EB1 010F00-010F1C 010F27-010F27 010F30-010F50 010F70-010F85 " \o
             "010FB0-010FC4 010FE0-010FF6 011000-011046 011066-011075 01107F-0110BA " \o
             "0110C2-0110C2 0110D0-0110E8 0110F0-0110F9 011100-011134 011136-01113F " \o
             "011144-011147 011150-011173 011176-011176 011180-0111C4 0111C9-0111CC " \o
             "0111CE-0111DA 0111DC-0111DC 011200-011211 011213-011237 01123E-01123E " \o
             "011280-011286 011288-011288 01128A-01128D 01128F-01129D 01129F-0112A8 " \o
             "0112B0-0112EA 0112F0-0112F9 011300-011303 011305-01130C 01130F-011310 " \o
             "011313-011328 01132A-011330 011332-011333 011335-011339 01133B-011344 " \o
             "011347-011348 01134B-01134D 011350-011350 011357-011357 01135D-011363 " \o
             "011366-01136C 011370-011374 011400-01144A 011450-011459 01145E-011461 " \o
             "011480-0114C5 0114C7-0114C7 0114D0-0114D9 011580-0115B5 0115B8-0115C0 " \o
             "0115D8-0115DD 011600-011640 011644-011644 011650-011659 011680-0116B8 " \o
             "0116C0-0116C9 011700-01171A 01171D-01172B 011730-011739 011740-011746 " \o
             "011800-01183A 0118A0-0118E9 0118FF-011906 011909-011909 01190C-011913 " \o
             "011915-011916 011918-011935 011937-011938 01193B-011943 011950-011959 " \o
             "0119A0-0119A7 0119AA-0119D7 0119DA-0119E1 0119E3-0119E4 011A00-011A3E " \o
             "011A47-011A47 011A50-011A99 011A9D-011A9D 011AB0-011AF8 011C00-011C08 " \o
             "011C0A-011C36 011C38-011C40 011C50-011C59 011C72-011C8F 011C92-011CA7 " \o
             "011CA9-011CB6 011D00-011D06 011D08-011D09 011D0B-011D36 011D3A-011D3A " \o
             "011D3C-011D3D 011D3F-011D47 011D50-011D59 011D60-011D65 011D67-011D68 " \o
             "011D6A-011D8E 011D90-011D91 011D93-011D98 011DA0-011DA9 011EE0-011EF6 " \o
             "011FB0-011FB0 012000-012399 012400-01246E 012480-012543 012F90-012FF0 " \o
             "013000-01342E 014400-014646 016800-016A38 016A40-016A5E 016A60-016A69 " \o
             "016A70-016ABE 016AC0-016AC9 016AD0-016AED 016AF0-016AF4 016B00-016B36 " \o
             "016B40-016B43 016B50-016B59 016B63-016B77 016B7D-016B8F 016E40-016E7F " \o
             "016F00-016F4A 016F4F-016F87 016F8F-016F9F 016FE0-016FE1 016FE3-016FE4 " \o
             "016FF0-016FF1 017000-0187F7 018800-018CD5 018D00-018D08 01AFF0-01AFF3 " \o
             "01AFF5-01AFFB 01AFFD-01AFFE 01B000-01B122 01B150-01B152 01B164-01B167 " \o
             "01B170-01B2FB 01BC00-01BC6A 01BC70-01BC7C 01BC80-01BC88 01BC90-01BC99 " \o
             "01BC9D-01BC9E 01CF00-01CF2D 01CF30-01CF46 01D165-01D169 01D16D-01D172 " \o
             "01D17B-01D182 01D185-01D18B 01D1AA-01D1AD 01D242-01D244 01D400-01D454 " \o
             "01D456-01D49C 01D49E-01D49F 01D4A2-01D4A2 01D4A5-01D4A6 01D4A9-01D4AC " \o
             "01D4AE-01D4B9 01D4BB-01D4BB 01D4BD-01D4C3 01D4C5-01D505 01D507-01D50A " \o
             "01D50D-01D514 01D516-01D51C 01D51E-01D539 01D53B-01D53E 01D540-01D544 " \o
             "01D546-01D546 01D54A-01D550 01D552-01D6A5 01D6A8-01D6C0 01D6C2-01D6DA " \o
             "01D6DC-01D6FA 01D6FC-01D714 01D716-01D734 01D736-01D74E 01D750-01D76E " \o
             "01D770-01D788 01D78A-01D7A8 01D7AA-01D7C2 01D7C4-01D7CB 01D7CE-01D7FF " \o
             "01DA00-01DA36 01DA3B-01DA6C 01DA75-01DA75 01DA84-01DA84 01DA9B-01DA9F " \o
             "01DAA1-01DAAF 01DF00-01DF1E 01E000-01E006 01E008-01E018 01E01B-01E021 " \o
             "01E023-01E024 01E026-01E02A 01E100-01E12C 01E130-01E13D 01E140-01E149 " \o
             "01E14E-01E14E 01E290-01E2AE 01E2C0-01E2F9 01E7E0-01E7E6 01E7E8-01E7EB " \o
             "01E7ED-01E7EE 01E7F0-01E7FE 01E800-01E8C4 01E8D0-01E8D6 01E900-01E94B " \o
             "01E950-01E959 01EE00-01EE03 01EE05-01EE1F 01EE21-01EE22 01EE24-01EE24 " \o
             "01EE27-01EE27 01EE29-01EE32 01EE34-01EE37 01EE39-01EE39 01EE3B-01EE3B " \o
             "01EE42-01EE42 01EE47-01EE47 01EE49-01EE49 01EE4B-01EE4B 01EE4D-01EE4F " \o
             "01EE51-01EE52 01EE54-01EE54 01EE57-01EE57 01EE59-01EE59 01EE5B-01EE5B " \o
             "01EE5D-01EE5D 01EE5F-01EE5F 01EE61-01EE62 01EE64-01EE64 01EE67-01EE6A " \o
             "01EE6C-01EE72 01EE74-01EE77 01EE79-01EE7C 01EE7E-01EE7E 01EE80-01EE89 " \o
             "01EE8B-01EE9B 01EEA1-01EEA3 01EEA5-01EEA9 01EEAB-01EEBB 01FBF0-01FBF9 " \o
             "020000-02A6DF 02A700-02B738 02B740-02B81D 02B820-02CEA1 02CEB0-02EBE0 " \o
             "02F800-02FA1D 030000-03134A 0E0100-0E01EF ")

\* str.isprintable()
PrintableRanges ==
    RangesOf("000020-00007E 0000A1-0000AC 0000AE-000377 00037A-00037F 000384-00038A " \o
             "00038C-00038C 00038E-0003A1 0003A3-00052F 000531-000556 000559-00058A " \o
             "00058D-00058F 000591-0005C7 0005D0-0005EA 0005EF-0005F4 000606-00061B " \o
             "00061D-0006DC 0006DE-00070D 000710-00074A 00074D-0007B1 0007C0-0007FA " \o
             "0007FD-00082D 000830-00083E 000840-00085B 00085E-00085E 000860-00086A " \o
             "000870-00088E 000898-0008E1 0008E3-000983 000985-00098C 00098F-000990 " \o
             "000993-0009A8 0009AA-0009B0 0009B2-0009B2 0009B6-0009B9 0009BC-0009C4 " \o
             "0009C7-0009C8 0009CB-0009CE 0009D7-0009D7 0009DC-0009DD 0009DF-0009E3 " \o
             "0009E6-0009FE 000A01-000A03 000A05-000A0A 000A0F-000A10 000A13-000A28 " \o
             "000A2A-000A30 000A32-000A33 000A35-000A36 000A38-000A39 000A3C-000A3C " \o
             "000A3E-000A42 000A47-000A48 000A4B-000A4D 000A51-000A51 000A59-000A5C " \o
             "000A5E-000A5E 000A66-000A76 000A81-000A83 000A85-000A8D 000A8F-000A91 " \o
             "000A93-000AA8 000AAA-000AB0 000AB2-000AB3 000AB5-000AB9 000ABC-000AC5 " \o
             "000AC7-000AC9 000ACB-000ACD 000AD0-000AD0 000AE0-000AE3 000AE6-000AF1 " \o
             "000AF9-000AFF 000B01-000B03 000B05-000B0C 000B0F-000B10 000B13-000B28 " \o
             "000B2A-000B30 000B32-000B33 000B35-000B39 000B3C-000B44 000B47-000B48 " \o
             "000B4B-000B4D 000B55-000B57 000B5C-000B5D 000B5F-000B63 000B66-000B77 " \o
             "000B82-000B83 000B85-000B8A 000B8E-000B90 000B92-000B95 000B99-000B9A " \o
             "000B9C-000B9C 000B9E-000B9F 000BA3-000BA4 000BA8-000BAA 000BAE-000BB9 " \o
             "000BBE-000BC2 000BC6-000BC8 000BCA-000BCD 000BD0-000BD0 000BD7-000BD7 " \o
             "000BE6-000BFA 000C00-000C0C 000C0E-000C10 000C12-000C28 000C2A-000C39 " \o
             "000C3C-000C44 000C46-000C48 000C4A-000C4D 000C55-000C56 000C58-000C5A " \o
             "000C5D-000C5D 000C60-000C63 000C66-000C6F 000C77-000C8C 000C8E-000C90 " \o
             "000C92-000CA8 000CAA-000CB3 000CB5-000CB9 000CBC-000CC4 000CC6-000CC8 " \o
             "000CCA-000CCD 000CD5-000CD6 000CDD-000CDE 000CE0-000CE3 000CE6-000CEF " \o
             "000CF1-000CF2 000D00-000D0C 000D0E-000D10 000D12-000D44 000D46-000D48 " \o
             "000D4A-000D4F 000D54-000D63 000D66-000D7F 000D81-000D83 000D85-000D96 " \o
             "000D9A-000DB1 000DB3-000DBB 000DBD-000DBD 000DC0-000DC6 000DCA-000DCA " \o
             "000DCF-000DD4 000DD6-000DD6 000DD8-000DDF 000DE6-000DEF 000DF2-000DF4 " \o
             "000E01-000E3A 000E3F-000E5B 000E81-000E82 000E84-000E84 000E86-000E8A " \o
             "000E8C-000EA3 000EA5-000EA5 000EA7-000EBD 000EC0-000EC4 000EC6-000EC6 " \o
             "000EC8-000ECD 000ED0-000ED9 000EDC-000EDF 000F00-000F47 000F49-000F6C " \o
             "000F71-000F97 000F99-000FBC 000FBE-000FCC 000FCE-000FDA 001000-0010C5 " \o
             "0010C7-0010C7 0010CD-0010CD 0010D0-001248 00124A-00124D 001250-001256 " \o
             "001258-001258 00125A-00125D 001260-001288 00128A-00128D 001290-0012B0 " \o
             "0012B2-0012B5 0012B8-0012BE 0012C0-0012C0 0012C2-0012C5 0012C8-0012D6 " \o
             "0012D8-001310 001312-001315 001318-00135A 00135D-00137C 001380-001399 " \o
             "0013A0-0013F5 0013F8-0013FD 001400-00167F 001681-00169C 0016A0-0016F8 " \o
             "001700-001715 00171F-001736 001740-001753 001760-00176C 00176E-001770 " \o
             "001772-001773 001780-0017DD 0017E0-0017E9 0017F0-0017F9 001800-00180D " \o
             "00180F-001819 001820-001878 001880-0018AA 0018B0-0018F5 001900-00191E " \o
             "001920-00192B 001930-00193B 001940-001940 001944-00196D 001970-001974 " \o
             "001980-0019AB 0019B0-0019C9 0019D0-0019DA 0019DE-001A1B 001A1E-001A5E " \o
             "001A60-001A7C 001A7F-001A89 001A90-001A99 001AA0-001AAD 001AB0-001ACE " \o
             "001B00-001B4C 001B50-001B7E 001B80-001BF3 001BFC-001C37 001C3B-001C49 " \o
             "001C4D-001C88 001C90-001CBA 001CBD-001CC7 001CD0-001CFA 001D00-001F15 " \o
             "001F18-001F1D 001F20-001F45 001F48-001F4D 001F50-001F57 001F59-001F59 " \o
             "001F5B-001F5B 001F5D-001F5D 001F5F-001F7D 001F80-001FB4 001FB6-001FC4 " \o
             "001FC6-001FD3 001FD6-001FDB 001FDD-001FEF 001FF2-001FF4 001FF6-001FFE " \o
             "002010-002027 002030-00205E 002070-002071 002074-00208E 002090-00209C " \o
             "0020A0-0020C0 0020D0-0020F0 002100-00218B 002190-002426 002440-00244A " \o
             "002460-002B73 002B76-002B95 002B97-002CF3 002CF9-002D25 002D27-002D27 " \o
             "002D2D-002D2D 002D30-002D67 002D6F-002D70 002D7F-002D96 002DA0-002DA6 " \o
             "002DA8-002DAE 002DB0-002DB6 002DB8-002DBE 002DC0-002DC6 002DC8-002DCE " \o
             "002DD0-002DD6 002DD8-002DDE 002DE0-002E5D 002E80-002E99 002E9B-002EF3 " \o
             "002F00-002FD5 002FF0-002FFB 003001-00303F 003041-003096 003099-0030FF " \o
             "003105-00312F 003131-00318E 003190-0031E3 0031F0-00321E 003220-00A48C " \o
             "00A490-00A4C6 00A4D0-00A62B 00A640-00A6F7 00A700-00A7CA 00A7D0-00A7D1 " \o
             "00A7D3-00A7D3 00A7D5-00A7D9 00A7F2-00A82C 00A830-00A839 00A840-00A877 " \o
             "00A880-00A8C5 00A8CE-00A8D9 00A8E0-00A953 00A95F-00A97C 00A980-00A9CD " \o
             "00A9CF-00A9D9 00A9DE-00A9FE 00AA00-00AA36 00AA40-00AA4D 00AA50-00AA59 " \o
             "00AA5C-00AAC2 00AADB-00AAF6 00AB01-00AB06 00AB09-00AB0E 00AB11-00AB16 " \o
             "00AB20-00AB26 00AB28-00AB2E 00AB30-00AB6B 00AB70-00ABED 00ABF0-00ABF9 " \o
             "00AC00-00D7A3 00D7B0-00D7C6 00D7CB-00D7FB 00F900-00FA6D 00FA70-00FAD9 " \o
             "00FB00-00FB06 00FB13-00FB17 00FB1D-00FB36 00FB38-00FB3C 00FB3E-00FB3E " \o
             "00FB40-00FB41 00FB43-00FB44 00FB46-00FBC2 00FBD3-00FD8F 00FD92-00FDC7 " \o
             "00FDCF-00FDCF 00FDF0-00FE19 00FE20-00FE52 00FE54-00FE66 00FE68-00FE6B " \o
             "00FE70-00FE74 00FE76-00FEFC 00FF01-00FFBE 00FFC2-00FFC7 00FFCA-00FFCF " \o
             "00FFD2-00FFD7 00FFDA-00FFDC 00FFE0-00FFE6 00FFE8-00FFEE 00FFFC-00FFFD " \o
             "010000-01000B 01000D-010026 010028-01003A 01003C-01003D 01003F-01004D " \o
             "010050-01005D 010080-0100FA 010100-010102 010107-010133 010137-01018E " \o
             "010190-01019C 0101A0-0101A0 0101D0-0101FD 010280-01029C 0102A0-0102D0 " \o
             "0102E0-0102FB 010300-010323 01032D-01034A 010350-01037A 010380-01039D " \o
             "01039F-0103C3 0103C8-0103D5 010400-01049D 0104A0-0104A9 0104B0-0104D3 " \o
             "0104D8-0104FB 010500-010527 010530-010563 01056F-01057A 01057C-01058A " \o
             "01058C-010592 010594-010595 010597-0105A1 0105A3-0105B1 0105B3-0105B9 " \o
             "0105BB-0105BC 010600-010736 010740-010755 010760-010767 010780-010785 " \o
             "010787-0107B0 0107B2-0107BA 010800-010805 010808-010808 01080A-010835 " \o
             "010837-010838 01083C-01083C 01083F-010855 010857-01089E 0108A7-0108AF " \o
             "0108E0-0108F2 0108F4-0108F5 0108FB-01091B 01091F-010939 01093F-01093F " \o
             "010980-0109B7 0109BC-0109CF 0109D2-010A03 010A05-010A06 010A0C-010A13 " \o
             "010A15-010A17 010A19-010A35 010A38-010A3A 010A3F-010A48 010A50-010A58 " \o
             "010A60-010A9F 010AC0-010AE6 010AEB-010AF6 010B00-010B35 010B39-010B55 " \o
             "010B58-010B72 010B78-010B91 010B99-010B9C 010BA9-010BAF 010C00-010C48 " \o
             "010C80-010CB2 010CC0-010CF2 010CFA-010D27 010D30-010D39 010E60-010E7E " \o
             "010E80-010EA9 010EAB-010EAD 010EB0-010EB1 010F00-010F27 010F30-010F59 " \o
             "010F70-010F89 010FB0-010FCB 010FE0-010FF6 011000-01104D 011052-011075 " \o
             "01107F-0110BC 0110BE-0110C2 0110D0-0110E8 0110F0-0110F9 011100-011134 " \o
             "011136-011147 011150-011176 011180-0111DF 0111E1-0111F4 011200-011211 " \o
             "011213-01123E 011280-011286 011288-011288 01128A-01128D 01128F-01129D " \o
             "01129F-0112A9 0112B0-0112EA 0112F0-0112F9 011300-011303 011305-01130C " \o
             "01130F-011310 011313-011328 01132A-011330 011332-011333 011335-011339 " \o
             "01133B-011344 011347-011348 01134B-01134D 011350-011350 011357-011357 " \o
             "01135D-011363 011366-01136C 011370-011374 011400-01145B 01145D-011461 " \o
             "011480-0114C7 0114D0-0114D9 011580-0115B5 0115B8-0115DD 011600-011644 " \o
             "011650-011659 011660-01166C 011680-0116B9 0116C0-0116C9 011700-01171A " \o
             "01171D-01172B 011730-011746 011800-01183B 0118A0-0118F2 0118FF-011906 " \o
             "011909-011909 01190C-011913 011915-011916 011918-011935 011937-011938 " \o
             "01193B-011946 011950-011959 0119A0-0119A7 0119AA-0119D7 0119DA-0119E4 " \o
             "011A00-011A47 011A50-011AA2 011AB0-011AF8 011C00-011C08 011C0A-011C36 " \o
             "011C38-011C45 011C50-011C6C 011C70-011C8F 011C92-011CA7 011CA9-011CB6 " \o
             "011D00-011D06 011D08-011D09 011D0B-011D36 011D3A-011D3A 011D3C-011D3D " \o
             "011D3F-011D47 011D50-011D59 011D60-011D65 011D67-011D68 011D6A-011D8E " \o
             "011D90-011D91 011D93-011D98 011DA0-011DA9 011EE0-011EF8 011FB0-011FB0 " \o
             "011FC0-011FF1 011FFF-012399 012400-01246E 012470-012474 012480-012543 " \o
             "012F90-012FF2 013000-01342E 014400-014646 016800-016A38 016A40-016A5E " \o
             "016A60-016A69 016A6E-016ABE 016AC0-016AC9 016AD0-016AED 016AF0-016AF5 " \o
             "016B00-016B45 016B50-016B59 016B5B-016B61 016B63-016B77 016B7D-016B8F " \o
             "016E40-016E9A 016F00-016F4A 016F4F-016F87 016F8F-016F9F 016FE0-016FE4 " \o
             "016FF0-016FF1 017000-0187F7 018800-018CD5 018D00-018D08 01AFF0-01AFF3 " \o
             "01AFF5-01AFFB 01AFFD-01AFFE 01B000-01B122 01B150-01B152 01B164-01B167 " \o
             "01B170-01B2FB 01BC00-01BC6A 01BC70-01BC7C 01BC80-01BC88 01BC90-01BC99 " \o
             "01BC9C-01BC9F 01CF00-01CF2D 01CF30-01CF46 01CF50-01CFC3 01D000-01D0F5 " \o
             "01D100-01D126 01D129-01D172 01D17B-01D1EA 01D200-01D245 01D2E0-01D2F3 " \o
             "01D300-01D356 01D360-01D378 01D400-01D454 01D456-01D49C 01D49E-01D49F " \o
             "01D4A2-01D4A2 01D4A5-01D4A6 01D4A9-01D4AC 01D4AE-01D4B9 01D4BB-01D4BB " \o
             "01D4BD-01D4C3 01D4C5-01D505 01D507-01D50A 01D50D-01D514 01D516-01D51C " \o
             "01D51E-01D539 01D53B-01D53E 01D540-01D544 01D546-01D546 01D54A-01D550 " \o
             "01D552-01D6A5 01D6A8-01D7CB 01D7CE-01DA8B 01DA9B-01DA9F 01DAA1-01DAAF " \o
             "01DF00-01DF1E 01E000-01E006 01E008-01E018 01E01B-01E021 01E023-01E024 " \o
             "01E026-01E02A 01E100-01E12C 01E130-01E13D 01E140-01E149 01E14E-01E14F " \o
             "01E290-01E2AE 01E2C0-01E2F9 01E2FF-01E2FF 01E7E0-01E7E6 01E7E8-01E7EB " \o
             "01E7ED-01E7EE 01E7F0-01E7FE 01E800-01E8C4 01E8C7-01E8D6 01E900-01E94B " \o
             "01E950-01E959 01E95E-01E95F 01EC71-01ECB4 01ED01-01ED3D 01EE00-01EE03 " \o
             "01EE05-01EE1F 01EE21-01EE22 01EE24-01EE24 01EE27-01EE27 01EE29-01EE32 " \o
             "01EE34-01EE37 01EE39-01EE39 01EE3B-01EE3B 01EE42-01EE42 01EE47-01EE47 " \o
             "01EE49-01EE49 01EE4B-01EE4B 01EE4D-01EE4F 01EE51-01EE52 01EE54-01EE54 " \o
             "01EE57-01EE57 01EE59-01EE59 01EE5B-01EE5B 01EE5D-01EE5D 01EE5F-01EE5F " \o
             "01EE61-01EE62 01EE64-01EE64 01EE67-01EE6A 01EE6C-01EE72 01EE74-01EE77 " \o
             "01EE79-01EE7C 01EE7E-01EE7E 01EE80-01EE89 01EE8B-01EE9B 01EEA1-01EEA3 " \o
             "01EEA5-01EEA9 01EEAB-01EEBB 01EEF0-01EEF1 01F000-01F02B 01F030-01F093 " \o
             "01F0A0-01F0AE 01F0B1-01F0BF 01F0C1-01F0CF 01F0D1-01F0F5 01F100-01F1AD " \o
             "01F1E6-01F202 01F210-01F23B 01F240-01F248 01F250-01F251 01F260-01F265 " \o
             "01F300-01F6D7 01F6DD-01F6EC 01F6F0-01F6FC 01F700-01F773 01F780-01F7D8 " \o
             "01F7E0-01F7EB 01F7F0-01F7F0 01F800-01F80B 01F810-01F847 01F850-01F859 " \o
             "01F860-01F887 01F890-01F8AD 01F8B0-01F8B1 01F900-01FA53 01FA60-01FA6D " \o
             "01FA70-01FA74 01FA78-01FA7C 01FA80-01FA86 01FA90-01FAAC 01FAB0-01FABA " \o
             "01FAC0-01FAC5 01FAD0-01FAD9 01FAE0-01FAE7 01FAF0-01FAF6 01FB00-01FB92 " \o
             "01FB94-01FBCA 01FBF0-01FBF9 020000-02A6DF 02A700-02B738 02B740-02B81D " \o
             "02B820-02CEA1 02CEB0-02EBE0 02F800-02FA1D 030000-03134A 0E0100-0E01EF ")

IsIdentifier(name) ==
    /\ name # <<>>
    /\ InRanges(CodePoint(name[1]), XidStartRanges)
    /\ \A i \in 2..Len(name) : InRanges(CodePoint(name[i]), XidContinueRanges)

IsPrintable(c) == InRanges(CodePoint(c), PrintableRanges)

\* str.lower() and str.upper(): character by character, the text growing
\* where a character has a lowercase or an uppercase of several characters
RECURSIVE LowerFrom(_, _, _)
LowerFrom(s, classes, i) ==
    IF i > Len(s) THEN <<>>
    ELSE (IF s[i] = CapitalSigma /\ FinalSigma(classes, i)
          THEN <<SmallFinalSigma>> ELSE LowerText(s[i]))
         \o LowerFrom(s, classes, i + 1)

RECURSIVE UpperEach(_)
UpperEach(s) == IF s = <<>> THEN <<>> ELSE UpperText(Head(s)) \o UpperEach(Tail(s))

Lower(s) ==
    IF \E i \in 1..Len(s) : IsNamed(s[i])
    THEN LowerFrom(s, SigmaClasses(s), 1)
    ELSE [i \in 1..Len(s) |-> Latin1Lower(s[i])]

Upper(s) ==
    IF \E i \in 1..Len(s) : IsNamed(s[i]) \/ s[i] = "ß"
    THEN UpperEach(s)
    ELSE [i \in 1..Len(s) |-> Latin1Upper(s[i])[1]]

\* the engine's own folding of names: the letters A-Z only
AsciiLower(s) ==
    [i \in 1..Len(s) |->
        IF s[i] \in UpperSet THEN LowerChars[PlaceIn(UpperChars, s[i])] ELSE s[i]]

\* s[from..] in 1-based positions
Tail0(s, from) == SubSeq(s, from, Len(s))

\* str.strip(): leading and trailing whitespace removed
RECURSIVE LStrip(_)
LStrip(s) ==
    IF s # <<>> /\ IsSpace(Head(s)) THEN LStrip(Tail(s)) ELSE s

RECURSIVE RStrip(_)
RStrip(s) ==
    IF s # <<>> /\ IsSpace(s[Len(s)]) THEN RStrip(SubSeq(s, 1, Len(s) - 1)) ELSE s

Strip(s) == RStrip(LStrip(s))

\* str.strip('_')
RECURSIVE StripUnderscores(_)
StripUnderscores(s) ==
    IF s # <<>> /\ Head(s) = "_" THEN StripUnderscores(Tail(s))
    ELSE IF s # <<>> /\ s[Len(s)] = "_"
         THEN StripUnderscores(SubSeq(s, 1, Len(s) - 1))
         ELSE s

\* the text `lit` stands at position p of s (p is 1-based)
At(s, p, lit) ==
    /\ p >= 1
    /\ p + Len(lit) - 1 <= Len(s)
    /\ \A k \in 1..Len(lit) : s[p + k - 1] = lit[k]

\* the same under re.IGNORECASE
AtIgnoreCase(s, p, lit) ==
    /\ p >= 1
    /\ p + Len(lit) - 1 <= Len(s)
    /\ \A k \in 1..Len(lit) : LowerChar(s[p + k - 1]) = LowerChar(lit[k])

\* the regular expressions' \b between positions p-1 and p
WordBoundary(s, p) ==
    LET before == p - 1 >= 1 /\ p - 1 <= Len(s) /\ IsWordChar(s[p - 1])
        after  == p >= 1 /\ p <= Len(s) /\ IsWordChar(s[p])
    IN  before # after

\* str.find(c, from): the first position >= from holding c, 0 when there is none
FindChar(s, c, from) ==
    IF \E j \in from..Len(s) : s[j] = c
    THEN CHOOSE j \in from..Len(s) : s[j] = c /\ \A k \in from..(j - 1) : s[k] # c
    ELSE 0

Contains(s, c) == \E j \in 1..Len(s) : s[j] = c

\* ------------------------------------------------------------------------
\* parser.py: _remove_string_literals and _remove_comments
\* ------------------------------------------------------------------------

\* the inner loop of _remove_string_literals: the first quote at or after
\* `from` that is not followed by another quote; 0 when there is none
ClosingQuoteLookahead(q, from) ==
    LET closes(j) == q[j] = "'" /\ (j + 1 > Len(q) \/ q[j + 1] # "'")
    IN  IF \E j \in from..Len(q) : closes(j)
        THEN CHOOSE j \in from..Len(q) : closes(j) /\ \A k \in from..(j - 1) : ~closes(k)
        ELSE 0

RECURSIVE RemoveLiteralsFrom(_, _, _, _)
RemoveLiteralsFrom(q, i, in_string, string_char) ==
    IF i > Len(q) THEN <<>>
    ELSE LET char == q[i] IN
      IF char \in {"'", "\""} /\ ~in_string THEN
        IF char = "'" THEN
          LET j == ClosingQuoteLookahead(q, i + 1) IN
            IF j # 0 /\ j + 1 <= Len(q) /\ q[j + 1] \in {".", "!"}
            THEN \* a sheet reference: kept, closing quote and separator included
                 SubSeq(q, i, j + 1) \o RemoveLiteralsFrom(q, j + 2, FALSE, None)
            ELSE \* a string literal, closed or not
                 <<" ">> \o RemoveLiteralsFrom(q, i + 1, TRUE, char)
        ELSE <<char>> \o RemoveLiteralsFrom(q, i + 1, TRUE, char)
      ELSE IF in_string /\ char = string_char THEN
        IF i + 1 <= Len(q) /\ q[i + 1] = string_char
        THEN (IF string_char = "\"" THEN <<char, char>> ELSE <<" ", " ">>)
             \o RemoveLiteralsFrom(q, i + 2, in_string, string_char)
        ELSE (IF string_char = "\"" THEN <<char>> ELSE <<" ">>)
             \o RemoveLiteralsFrom(q, i + 1, FALSE, None)
      ELSE IF in_string THEN
        (IF string_char = "\"" THEN <<char>> ELSE <<" ">>)
        \o RemoveLiteralsFrom(q, i + 1, in_string, string_char)
      ELSE <<char>> \o RemoveLiteralsFrom(q, i + 1, in_string, string_char)

_remove_string_literals(query0) == RemoveLiteralsFrom(query0, 1, FALSE, None)

\* re.sub(r'--[^\n]*', ' ', query)
RECURSIVE RemoveLineComments(_, _)
RemoveLineComments(q, i) ==
    IF i > Len(q) THEN <<>>
    ELSE IF At(q, i, <<"-", "-">>)
         THEN LET nl == FindChar(q, "\n", i + 2)
                  next == IF nl = 0 THEN Len(q) + 1 ELSE nl
              IN  <<" ">> \o RemoveLineComments(q, next)
         ELSE <<q[i]>> \o RemoveLineComments(q, i + 1)

\* re.sub(r'/\*.*?\*/', ' ', query, flags=re.DOTALL)
RECURSIVE RemoveBlockComments(_, _)
RemoveBlockComments(q, i) ==
    IF i > Len(q) THEN <<>>
    ELSE LET closed(j) == At(q, j, <<"*", "/">>) IN
         IF At(q, i, <<"/", "*">>) /\ \E j \in (i + 2)..Len(q) : closed(j)
         THEN LET j == CHOOSE j \in (i + 2)..Len(q) :
                          closed(j) /\ \A k \in (i + 2)..(j - 1) : ~closed(k)
              IN  <<" ">> \o RemoveBlockComments(q, j + 2)
         ELSE <<q[i]>> \o RemoveBlockComments(q, i + 1)

_remove_comments(query0) == RemoveBlockComments(RemoveLineComments(query0, 1), 1)

\* ------------------------------------------------------------------------
\* parser.py: _extract_identifier and _extract_reference_at_position
\* ------------------------------------------------------------------------

\* the closing quote of a quoted run scanned from end_pos, a doubled quote
\* being skipped; 0 when the run is not closed
RECURSIVE QuotedRunEnd(_, _, _)
QuotedRunEnd(q, end_pos, quote) ==
    IF end_pos > Len(q) THEN 0
    ELSE IF q[end_pos] = quote
         THEN IF end_pos + 1 <= Len(q) /\ q[end_pos + 1] = quote
              THEN QuotedRunEnd(q, end_pos + 2, quote)
              ELSE end_pos
         ELSE QuotedRunEnd(q, end_pos + 1, quote)

IsBareRefChar(c) == IsAlnum(c) \/ c \in {"_", "$", ":"}

\* the position after the maximal run of bare reference characters
RECURSIVE BareRunEnd(_, _)
BareRunEnd(q, end_pos) ==
    IF end_pos <= Len(q) /\ IsBareRefChar(q[end_pos])
    THEN BareRunEnd(q, end_pos + 1)
    ELSE end_pos

_extract_identifier(query0, start_pos) ==
    IF start_pos > Len(query0) THEN None
    ELSE IF query0[start_pos] \in {"\"", "'"}
    THEN LET e == QuotedRunEnd(query0, start_pos + 1, query0[start_pos])
         IN  IF e = 0 THEN None ELSE SubSeq(query0, start_pos, e)
    ELSE LET e == BareRunEnd(query0, start_pos)
         IN  IF e > start_pos THEN SubSeq(query0, start_pos, e - 1) ELSE None

\* Python truthiness of an Optional[str]
Truthy(s) == s # None /\ s # <<>>

RECURSIVE SkipSpace(_, _)
SkipSpace(q, p) ==
    IF p <= Len(q) /\ IsSpace(q[p]) THEN SkipSpace(q, p + 1) ELSE p

_extract_reference_at_position(query0, start_pos0) ==
    LET start_pos == SkipSpace(query0, start_pos0) IN
    IF start_pos > Len(query0) THEN None
    ELSE IF query0[start_pos] = "'" THEN
        LET end_quote == FindChar(query0, "'", start_pos + 1)
            next_pos  == end_quote + 1
        IN  IF end_quote = 0 THEN None
            ELSE IF next_pos <= Len(query0) /\ query0[next_pos] \in {".", "!"}
                 THEN LET rest == _extract_identifier(query0, next_pos + 1)
                      IN  IF Truthy(rest)
                          THEN SubSeq(query0, start_pos, end_quote)
                                   \o <<query0[next_pos]>> \o rest
                          ELSE None
                 ELSE None
    ELSE
        LET identifier == _extract_identifier(query0, start_pos) IN
        IF ~Truthy(identifier) THEN None
        ELSE LET next_pos == start_pos + Len(identifier) IN
             IF next_pos <= Len(query0) /\ query0[next_pos] \in {".", "!"}
             THEN LET rest_start == SkipSpace(query0, next_pos + 1)
                      end_quote  == FindChar(query0, "'", rest_start + 1)
                      rest == IF rest_start <= Len(query0) /\ query0[rest_start] = "'"
                                 /\ end_quote # 0
                              THEN SubSeq(query0, rest_start, end_quote)
                              ELSE _extract_identifier(query0, rest_start)
                  IN  IF Truthy(rest)
                      THEN identifier \o <<query0[next_pos]>> \o rest
                      ELSE identifier
             ELSE identifier

\* ------------------------------------------------------------------------
\* parser.py: parse_reference and _generate_sqlite_name
\* ------------------------------------------------------------------------

\* \$?[A-Z]+\$?\d+ under re.IGNORECASE, matching all of s
RECURSIVE AllDigits(_)
AllDigits(s) == s = <<>> \/ (IsDecimal(Head(s)) /\ AllDigits(Tail(s)))

RECURSIVE LettersThenRow(_, _)
LettersThenRow(s, seenLetter) ==
    IF s = <<>> THEN FALSE
    ELSE IF IsLetterIgnoreCase(Head(s)) THEN LettersThenRow(Tail(s), TRUE)
    ELSE IF ~seenLetter THEN FALSE
    ELSE LET row == IF Head(s) = "$" THEN Tail(s) ELSE s
         IN  row # <<>> /\ AllDigits(row)

IsCellRef(s) ==
    LET body == IF s # <<>> /\ Head(s) = "$" THEN Tail(s) ELSE s
    IN  LettersThenRow(body, FALSE)

\* range_pattern: ^(\$?[A-Z]+\$?\d+):(\$?[A-Z]+\$?\d+)$
IsRangeText(s) ==
    LET c == FindChar(s, ":", 1)
    IN  /\ c # 0
        /\ IsCellRef(SubSeq(s, 1, c - 1))
        /\ IsCellRef(Tail0(s, c + 1))

NoMatch == [matched |-> FALSE, sheet |-> <<>>, rest |-> <<>>]

\* ^(?:'([^']+)'|([^<sep>]+))<sep> as both qualified patterns begin: the
\* sheet group and the text after the separator
QuotedSheetSplit(ref, sep) ==
    LET close == FindChar(ref, "'", 2)
    IN  IF /\ ref # <<>> /\ Head(ref) = "'"
           /\ close > 2
           /\ close + 1 <= Len(ref) /\ ref[close + 1] = sep
        THEN [matched |-> TRUE, sheet |-> SubSeq(ref, 2, close - 1),
              rest |-> Tail0(ref, close + 2)]
        ELSE NoMatch

PlainSheetSplit(ref, sep) ==
    LET k == FindChar(ref, sep, 1)
    IN  IF k >= 2
        THEN [matched |-> TRUE, sheet |-> SubSeq(ref, 1, k - 1),
              rest |-> Tail0(ref, k + 1)]
        ELSE NoMatch

\* cross_sheet_range_pattern
CrossSheetRangeMatch(ref) ==
    LET a == QuotedSheetSplit(ref, "!")
        b == PlainSheetSplit(ref, "!")
    IN  IF a.matched /\ IsRangeText(a.rest) THEN a
        ELSE IF b.matched /\ IsRangeText(b.rest) THEN b
        ELSE NoMatch

\* (.+)$ : at least one character and no newline
IsDotPlus(s) == s # <<>> /\ ~Contains(s, "\n")

\* sheet_table_pattern
SheetTableMatch(ref) ==
    LET a == QuotedSheetSplit(ref, ".")
        b == PlainSheetSplit(ref, ".")
    IN  IF a.matched /\ IsDotPlus(a.rest) THEN a
        ELSE IF b.matched /\ IsDotPlus(b.rest) THEN b
        ELSE NoMatch

\* str.replace('""', '"')
RECURSIVE UndoubleQuotes(_)
UndoubleQuotes(s) ==
    IF s = <<>> THEN <<>>
    ELSE IF Len(s) >= 2 /\ s[1] = "\"" /\ s[2] = "\""
         THEN <<"\"">> \o UndoubleQuotes(Tail0(s, 3))
         ELSE <<Head(s)>> \o UndoubleQuotes(Tail(s))

\* the quotes of a double-quoted table name are removed
UnquoteTable(t) ==
    IF t # <<>> /\ Head(t) = "\"" /\ t[Len(t)] = "\""
    THEN UndoubleQuotes(SubSeq(t, 2, Len(t) - 1))
    ELSE t

\* re.sub(r'[^a-zA-Z0-9_]+', '_', s) (keepUnderscore) and
\* re.sub(r'[^a-zA-Z0-9]+', '_', s): each run of other characters becomes _
RECURSIVE SquashRuns(_, _, _)
SquashRuns(s, keepUnderscore, inRun) ==
    IF s = <<>> THEN <<>>
    ELSE LET kept == IsAsciiAlnum(Head(s)) \/ (keepUnderscore /\ Head(s) = "_") IN
         IF kept THEN <<Head(s)>> \o SquashRuns(Tail(s), keepUnderscore, FALSE)
         ELSE IF inRun THEN SquashRuns(Tail(s), keepUnderscore, TRUE)
         ELSE <<"_">> \o SquashRuns(Tail(s), keepUnderscore, TRUE)

SanitizedPart(s, keepUnderscore) ==
    StripUnderscores(SquashRuns(Lower(s), keepUnderscore, FALSE))

\* '_'.join(parts)
RECURSIVE JoinUnderscore(_)
JoinUnderscore(parts) ==
    IF parts = <<>> THEN <<>>
    ELSE IF Len(parts) = 1 THEN parts[1]
    ELSE parts[1] \o <<"_">> \o JoinUnderscore(Tail(parts))

\* _generate_sqlite_name without the r_ prefix and without the default name
_generate_sqlite_name_unguarded(sheet_name, table_name, range_ref) ==
    JoinUnderscore(
            (IF Truthy(sheet_name) THEN <<SanitizedPart(sheet_name, TRUE)>> ELSE <<>>)
         \o (IF Truthy(table_name) THEN <<SanitizedPart(table_name, TRUE)>> ELSE <<>>)
         \o (IF Truthy(range_ref) THEN <<SanitizedPart(range_ref, FALSE)>> ELSE <<>>))

_generate_sqlite_name(sheet_name, table_name, range_ref) ==
    LET parts ==
            (IF Truthy(sheet_name) THEN <<SanitizedPart(sheet_name, TRUE)>> ELSE <<>>)
         \o (IF Truthy(table_name) THEN <<SanitizedPart(table_name, TRUE)>> ELSE <<>>)
         \o (IF Truthy(range_ref) THEN <<SanitizedPart(range_ref, FALSE)>> ELSE <<>>)
        name == JoinUnderscore(parts)
        prefixed == IF name # <<>> /\ IsDigit(name[1]) THEN <<"r", "_">> \o name ELSE name
    IN  IF prefixed = <<>>
        THEN <<"t","a","b","l","e","_","r","e","f">>
        ELSE prefixed

TableReference(original, sheet_name, table_name, range_ref, sqlite_name) ==
    [original |-> original, sheet_name |-> sheet_name, table_name |-> table_name,
     range_ref |-> range_ref, sqlite_name |-> sqlite_name]

\* parse_reference raises ValueError on an empty or blank reference
ParseReferenceRaises(ref0) == ref0 = None \/ Strip(ref0) = <<>>

parse_reference(ref0) ==
    LET ref   == Strip(ref0)
        cross == CrossSheetRangeMatch(ref)
        st    == SheetTableMatch(ref)
    IN  IF cross.matched
        THEN TableReference(ref, cross.sheet, None, Upper(cross.rest),
                            _generate_sqlite_name(cross.sheet, None, Upper(cross.rest)))
        ELSE IF IsRangeText(ref)
        THEN TableReference(ref, None, None, Upper(ref),
                            _generate_sqlite_name(None, None, Upper(ref)))
        ELSE IF st.matched
        THEN TableReference(ref, st.sheet, UnquoteTable(st.rest), None,
                            _generate_sqlite_name(st.sheet, UnquoteTable(st.rest), None))
        ELSE TableReference(ref, None, UnquoteTable(ref), None,
                            _generate_sqlite_name(None, UnquoteTable(ref), None))

\* ------------------------------------------------------------------------
\* parser.py: extract_table_references
\* ------------------------------------------------------------------------

KwFROM == <<"F","R","O","M">>

KwJOIN == <<"J","O","I","N">>

KwUPDATE == <<"U","P","D","A","T","E">>

KwINSERT == <<"I","N","S","E","R","T">>

KwINTO == <<"I","N","T","O">>

\* re.finditer(r'\b(?:FROM|JOIN)\s+', cleaned, re.IGNORECASE): the end of
\* each match, left to right
RECURSIVE FromJoinMatchEnds(_, _)
FromJoinMatchEnds(q, i) ==
    IF i > Len(q) THEN <<>>
    ELSE IF /\ WordBoundary(q, i)
            /\ AtIgnoreCase(q, i, KwFROM) \/ AtIgnoreCase(q, i, KwJOIN)
            /\ i + 4 <= Len(q) /\ IsSpace(q[i + 4])
         THEN LET e == SkipSpace(q, i + 4)
              IN  <<e>> \o FromJoinMatchEnds(q, e)
         ELSE FromJoinMatchEnds(q, i + 1)

\* the position after the maximal run of characters that are neither
\* whitespace nor in `stops`: the group ([^\s,;]+) or ([^\s,;(]+)
RECURSIVE TargetRunEnd(_, _, _)
TargetRunEnd(q, p, stops) ==
    IF p <= Len(q) /\ ~IsSpace(q[p]) /\ q[p] \notin stops
    THEN TargetRunEnd(q, p + 1, stops)
    ELSE p

\* re.finditer(r'\bUPDATE\s+([^\s,;]+)', cleaned, re.IGNORECASE): group 1 of
\* each match, left to right
RECURSIVE UpdateTargets(_, _)
UpdateTargets(q, i) ==
    IF i > Len(q) THEN <<>>
    ELSE LET s == SkipSpace(q, i + 6)
             e == TargetRunEnd(q, s, {",", ";"})
         IN  IF /\ WordBoundary(q, i)
                /\ AtIgnoreCase(q, i, KwUPDATE)
                /\ i + 6 <= Len(q) /\ IsSpace(q[i + 6])
                /\ e > s
             THEN <<SubSeq(q, s, e - 1)>> \o UpdateTargets(q, e)
             ELSE UpdateTargets(q, i + 1)

\* re.finditer(r'\bINSERT\s+INTO\s+([^\s,;(]+)', cleaned, re.IGNORECASE)
RECURSIVE InsertTargets(_, _)
InsertTargets(q, i) ==
    IF i > Len(q) THEN <<>>
    ELSE LET into == SkipSpace(q, i + 6)
             s == SkipSpace(q, into + 4)
             e == TargetRunEnd(q, s, {",", ";", "("})
         IN  IF /\ WordBoundary(q, i)
                /\ AtIgnoreCase(q, i, KwINSERT)
                /\ i + 6 <= Len(q) /\ IsSpace(q[i + 6])
                /\ AtIgnoreCase(q, into, KwINTO)
                /\ into + 4 <= Len(q) /\ IsSpace(q[into + 4])
                /\ e > s
             THEN <<SubSeq(q, s, e - 1)>> \o InsertTargets(q, e)
             ELSE InsertTargets(q, i + 1)

\* the reference texts in the order the three loops meet them
CandidateTexts(cleaned) ==
    LET ends == FromJoinMatchEnds(cleaned, 1)
        fromJoin == [k \in 1..Len(ends) |-> _extract_reference_at_position(cleaned, ends[k])]
        upd == UpdateTargets(cleaned, 1)
        ins == InsertTargets(cleaned, 1)
    IN  fromJoin
        \o [k \in 1..Len(upd) |-> Strip(upd[k])]
        \o [k \in 1..Len(ins) |-> Strip(ins[k])]

\* the loops' bodies: a text is parsed and kept unless it is empty, was seen
\* before, or parse_reference raises ValueError
RECURSIVE CollectReferences(_, _, _)
CollectReferences(texts, seen, references0) ==
    IF texts = <<>> THEN references0
    ELSE LET ref_text == Head(texts) IN
         IF Truthy(ref_text) /\ ref_text \notin seen /\ ~ParseReferenceRaises(ref_text)
         THEN CollectReferences(Tail(texts), seen \cup {ref_text},
                                Append(references0, parse_reference(ref_text)))
         ELSE CollectReferences(Tail(texts), seen, references0)

extract_table_references(query0) ==
    LET cleaned_query == _remove_comments(_remove_string_literals(query0))
    IN  CollectReferences(CandidateTexts(cleaned_query), {}, <<>>)

\* ------------------------------------------------------------------------
\* parser.py: count_parameters, is_parameterized_query
\* ------------------------------------------------------------------------

RECURSIVE CountParametersFrom(_, _, _, _, _)
CountParametersFrom(q, i, in_string, string_char, count) ==
    IF i > Len(q) THEN count
    ELSE LET char == q[i] IN
         IF char \in {"'", "\""} /\ ~in_string
         THEN CountParametersFrom(q, i + 1, TRUE, char, count)
         ELSE IF in_string /\ char = string_char
         THEN IF i + 1 <= Len(q) /\ q[i + 1] = string_char
              THEN CountParametersFrom(q, i + 2, in_string, string_char, count)
              ELSE CountParametersFrom(q, i + 1, FALSE, None, count)
         ELSE IF char = "?" /\ ~in_string
         THEN CountParametersFrom(q, i + 1, in_string, string_char, count + 1)
         ELSE CountParametersFrom(q, i + 1, in_string, string_char, count)

\* every ? counted, those inside quoted runs too
count_parameters_unquoted(query0) == Cardinality({p \in 1..Len(query0) : query0[p] = "?"})

count_parameters(query0) == CountParametersFrom(query0, 1, FALSE, None, 0)

is_parameterized_query(query0) == count_parameters(query0) > 0

\* ------------------------------------------------------------------------
\* errors.py: the exception classes.  An exception is [cls, message, text]:
\* text is str(e); a message or text is a sequence of pieces (strings and
\* characters) whose concatenation is the Python string.
\* ------------------------------------------------------------------------

SQLiteExcelErrorClasses ==
    {"SQLiteExcelError", "TableNotFoundError", "ColumnNotFoundError",
     "DuplicateColumnError", "EmptyColumnNameError", "QuerySyntaxError",
     "RangeResolutionError", "EmptyRangeError", "TypeInferenceError",
     "ExecutionError", "TimeoutError", "OutputLimitError"}

\* sqlite3's classes under sqlite3.DatabaseError, and other Exception classes
Sqlite3DatabaseErrorClasses ==
    {"DatabaseError", "OperationalError", "IntegrityError", "ProgrammingError"}

OtherExceptionClasses == {"InterfaceError", "KeyError", "MemoryError"}

ExceptionClasses ==
    SQLiteExcelErrorClasses \cup Sqlite3DatabaseErrorClasses \cup OtherExceptionClasses

NoExc == [cls |-> "none", message |-> <<>>, text |-> <<>>]

\* SQLiteExcelError.__init__: super().__init__(f"Error: {message}")
SQLiteExcelError(cls, message) ==
    [cls |-> cls, message |-> message, text |-> <<"Error: ">> \o message]

\* an exception of another library: str(e) is its message
ForeignError(cls, message) == [cls |-> cls, message |-> message, text |-> message]

TableNotFoundError(table_name) ==
    SQLiteExcelError("TableNotFoundError", <<"no such table: ">> \o table_name)

ColumnNotFoundError(column_name) ==
    SQLiteExcelError("ColumnNotFoundError", <<"no such column: ">> \o column_name)

DuplicateColumnError(column_name) ==
    SQLiteExcelError("DuplicateColumnError", <<"duplicate column name: ">> \o column_name)

\* EmptyColumnNameError(position=None): the position is written only when
\* one is given
EmptyColumnNameError(position) ==
    SQLiteExcelError("EmptyColumnNameError",
        IF ToString(position) # ToString(None)
        THEN <<"column name cannot be empty (position ", ToString(position), ")">>
        ELSE <<"column name cannot be empty">>)

\* QuerySyntaxError(details=...)
QuerySyntaxErrorDetails(details) ==
    SQLiteExcelError("QuerySyntaxError",
        IF details # <<>> THEN details ELSE <<"syntax error">>)

RangeResolutionError(range_ref, reason) ==
    SQLiteExcelError("RangeResolutionError",
        IF reason # <<>>
        THEN <<"cannot resolve range: ">> \o range_ref \o <<" (">> \o reason \o <<")">>
        ELSE <<"cannot resolve range: ">> \o range_ref)

EmptyRangeError(range_ref) ==
    SQLiteExcelError("EmptyRangeError", <<"range contains no data: ">> \o range_ref)

ExecutionError(message) == SQLiteExcelError("ExecutionError", message)

IsSQLiteExcelError(e) == e.cls \in SQLiteExcelErrorClasses

\* the Python string of a message: its pieces one after another, each
\* character by character
CharactersOf(piece) ==
    IF IsNamed(piece) THEN <<piece>>
    ELSE [i \in 1..Len(piece) |-> SubSeq(piece, i, i)]

RECURSIVE Characters(_)
Characters(msg) ==
    IF msg = <<>> THEN <<>> ELSE CharactersOf(Head(msg)) \o Characters(Tail(msg))

\* str.find(lit, from) in 1-based positions: the first position >= from
\* where lit stands, 0 when there is none
FindText(s, lit, from) ==
    LET places == {p \in from..(Len(s) - Len(lit) + 1) : At(s, p, lit)}
    IN  IF places = {} THEN 0 ELSE CHOOSE p \in places : \A k \in places : p <= k

\* lit in s
InText(s, lit) == FindText(s, lit, 1) # 0

\* parts = msg.split(<piece ":">); parts[1].strip() when len(parts) > 1:
\* what stands between the first <piece ":"> and the next one, trimmed;
\* <<>> with found FALSE when the message does not hold <piece ":">
AfterPrefix(msg, piece) ==
    LET chars == Characters(msg)
        sep == Characters(<<piece, ":">>)
        first == FindText(chars, sep, 1)
        next == FindText(chars, sep, first + Len(sep))
        last == IF next = 0 THEN Len(chars) ELSE next - 1
    IN  IF first # 0
        THEN [found |-> TRUE, rest |-> Strip(SubSeq(chars, first + Len(sep), last))]
        ELSE [found |-> FALSE, rest |-> <<>>]

HasPiece(msg, piece) == \E i \in 1..Len(msg) : msg[i] = piece

normalize_sqlite_error(error) ==
    LET error_msg == error.text
        chars == Characters(error_msg)
        tbl == AfterPrefix(error_msg, "no such table")
        col == AfterPrefix(error_msg, "no such column")
    IN  IF error.cls = "OperationalError" THEN
            IF InText(chars, Characters(<<"no such table">>)) /\ tbl.found
            THEN TableNotFoundError(tbl.rest)
            ELSE IF InText(chars, Characters(<<"no such column">>)) /\ col.found
            THEN ColumnNotFoundError(col.rest)
            ELSE IF InText(Lower(chars), Characters(<<"syntax error">>))
            THEN QuerySyntaxErrorDetails(error_msg)
            ELSE ExecutionError(error_msg)
        ELSE IF error.cls = "IntegrityError"
        THEN ExecutionError(<<"integrity error: ">> \o error_msg)
        ELSE IF error.cls = "ProgrammingError"
        THEN ExecutionError(<<"programming error: ">> \o error_msg)
        ELSE ExecutionError(error_msg)

format_error_for_excel_unprefixed(error) == error.text

format_error_for_excel(error) ==
    IF IsSQLiteExcelError(error) THEN error.text
    ELSE normalize_sqlite_error(error).text

\* ------------------------------------------------------------------------
\* parser.py: substitute_references.  re.sub reads its second argument as a
\* replacement template when it holds a backslash: the escapes of
\* re._parser.parse_template, for a pattern that has no group but the
\* whole match.
\* ------------------------------------------------------------------------

\* the place of the whole match in a parsed template
GroupZero == "\\g<0>"

OctalDigits == {"0","1","2","3","4","5","6","7"}

LowerHexDigits == <<"0","1","2","3","4","5","6","7","8","9","a","b","c","d","e","f">>

\* the n in the given number of hexadecimal digits, as repr() writes them
RECURSIVE LowerHex(_, _)
LowerHex(n, digits) ==
    IF digits = 0 THEN <<>>
    ELSE LowerHex(n \div 16, digits - 1) \o <<LowerHexDigits[(n % 16) + 1]>>

\* repr(name)
Repr(name) ==
    LET quote == IF Contains(name, "'") /\ ~Contains(name, "\"") THEN "\"" ELSE "'"
        written(c) ==
            LET n == CodePoint(c)
            IN  IF c = quote \/ c = "\\" THEN <<"\\", c>>
                ELSE IF c = "\t" THEN <<"\\", "t">>
                ELSE IF c = "\n" THEN <<"\\", "n">>
                ELSE IF c = "\r" THEN <<"\\", "r">>
                ELSE IF n < 32 \/ n = 127 THEN <<"\\", "x">> \o LowerHex(n, 2)
                ELSE IF n < 127 \/ IsPrintable(c) THEN <<c>>
                ELSE IF n <= 255 THEN <<"\\", "x">> \o LowerHex(n, 2)
                ELSE IF n <= 65535 THEN <<"\\", "u">> \o LowerHex(n, 4)
                ELSE <<"\\", "U">> \o LowerHex(n, 8)
        each[i \in 0..Len(name)] ==
            IF i = 0 THEN <<>> ELSE each[i - 1] \o written(name[i])
    IN  <<quote>> \o each[Len(name)] \o <<quote>>

\* int(name): whether name is a decimal number, whether it is below zero,
\* and its digits without leading zeros.  A blank or a decimal digit of
\* Unicode counts as the ASCII one; the blanks at both ends are those of C.
DecimalDigits == <<"0","1","2","3","4","5","6","7","8","9">>

AsAscii(c) ==
    LET n == CodePoint(c)
    IN  IF n < 127 THEN c
        ELSE IF IsSpace(c) THEN " "
        ELSE IF IsDecimal(c)
        THEN LET r == CHOOSE r \in DecimalRanges : r[1] <= n /\ n <= r[2]
             IN  DecimalDigits[((n - r[1]) % 10) + 1]
        ELSE "?"

RECURSIVE WithoutLeadingZeros(_)
WithoutLeadingZeros(digits) ==
    IF Len(digits) > 1 /\ Head(digits) = "0" THEN WithoutLeadingZeros(Tail(digits))
    ELSE digits

\* the text without the blanks of C at both ends
CBlanks == {" ", "\t", "\n", "\r", "\f", CharOf(11)}

StripCBlanks(ascii) ==
    LET inner == {i \in 1..Len(ascii) : ascii[i] \notin CBlanks}
    IN  IF inner = {} THEN <<>>
        ELSE SubSeq(ascii, CHOOSE i \in inner : \A k \in inner : i <= k,
                           CHOOSE i \in inner : \A k \in inner : k <= i)

IsDigitAt(body, start, i) == i >= start /\ i <= Len(body) /\ IsAsciiDigit(body[i])

\* digits from start on, single underscores between them
IsNumberFrom(body, start) ==
    /\ start <= Len(body)
    /\ \A i \in start..Len(body) :
           \/ IsDigitAt(body, start, i)
           \/ /\ body[i] = "_"
              /\ IsDigitAt(body, start, i - 1)
              /\ IsDigitAt(body, start, i + 1)

IntOfBody(body, valid, digits) ==
    [valid |-> valid,
     negative |-> valid /\ body[1] = "-" /\ digits # <<"0">>,
     digits |-> digits]

IntOfStripped(body) ==
    IntOfBody(body,
              IsNumberFrom(body, IF body # <<>> /\ body[1] \in {"+", "-"} THEN 2 ELSE 1),
              WithoutLeadingZeros(SelectSeq(body, IsAsciiDigit)))

IntOf(name) == IntOfStripped(StripCBlanks([i \in 1..Len(name) |-> AsAscii(name[i])]))

\* the tokens of a template: a character, or a backslash and the character
\* after it, each with the place (from 0) where it begins; a backslash that
\* ends the template is no token
RECURSIVE TemplateTokens(_, _)
TemplateTokens(source, i) ==
    IF i > Len(source) THEN <<>>
    ELSE IF source[i] = "\\"
    THEN IF i = Len(source) THEN <<>>
         ELSE <<[text |-> <<source[i], source[i + 1]>>, pos |-> i - 1]>>
              \o TemplateTokens(source, i + 2)
    ELSE <<[text |-> <<source[i]>>, pos |-> i - 1]>> \o TemplateTokens(source, i + 1)

\* the template ends with a backslash that escapes nothing
Dangling(source, toks) ==
    IF toks = <<>> THEN source # <<>>
    ELSE toks[Len(toks)].pos + Len(toks[Len(toks)].text) < Len(source)

\* Tokenizer.tell() when token k is the next one
Tell(source, toks, k) == IF k <= Len(toks) THEN toks[k].pos ELSE Len(source)

\* re.error(msg, pattern, pos): the position, and the line and the column
\* when the template holds a newline
ReError(source, msg, pos) ==
    LET newlines == {i \in 1..Len(source) : source[i] = "\n"}
        before == {i \in newlines : i <= pos}
        lastnl == IF before = {} THEN 0 ELSE CHOOSE i \in before : \A k \in before : k <= i
        place == <<" at position ", ToString(pos)>>
        where == IF newlines = {} THEN <<>>
                 ELSE <<" (line ", ToString(Cardinality(before) + 1),
                        ", column ", ToString(pos - lastnl + 1), ")">>
        message == msg \o place \o where
    IN  [cls |-> "error", message |-> message, text |-> message]

\* what reading one token of the template gives: an exception, or the
\* parts it stands for and the token to go on with
Raises(e) == [exc |-> e, parts |-> <<>>, next |-> 0]

Reads(parts, next) ==
    [exc |-> [cls |-> "none", message |-> <<>>, text |-> <<>>],
     parts |-> parts, next |-> next]

BadEscapeAtEnd(source) ==
    Raises(ReError(source, <<"bad escape (end of pattern)">>, Len(source) - 1))

\* reading token j brings the backslash at the end under the tokenizer
EndsAt(source, toks, j) == j = Len(toks) /\ Dangling(source, toks)

IsOctalToken(toks, j) ==
    j <= Len(toks) /\ Len(toks[j].text) = 1 /\ toks[j].text[1] \in OctalDigits

IsDigitToken(toks, j) ==
    j <= Len(toks) /\ Len(toks[j].text) = 1 /\ toks[j].text[1] \in DigitSet

OctalValue(digits) ==
    LET value[i \in 0..Len(digits)] ==
            IF i = 0 THEN 0 ELSE 8 * value[i - 1] + (PlaceIn(DecimalDigits, digits[i]) - 1)
    IN  value[Len(digits)]

\* \a \b \f \n \r \t \v and the backslash
EscapeOf(c) ==
    IF c = "a" THEN CharOf(7) ELSE IF c = "b" THEN CharOf(8)
    ELSE IF c = "f" THEN "\f" ELSE IF c = "n" THEN "\n"
    ELSE IF c = "r" THEN "\r" ELSE IF c = "t" THEN "\t"
    ELSE IF c = "v" THEN CharOf(11) ELSE "\\"

\* \g<name>, token k being the \g
GroupEscape(source, toks, k) ==
    LET n == Len(toks)
        closers == {m \in (k + 2)..n : toks[m].text = <<">">>}
        m == CHOOSE m \in closers : \A j \in closers : m <= j
        name == SubSeq(source, toks[k + 2].pos + 1, toks[m].pos)
        index == IntOf(name)
        unknown == <<"unknown group name ">> \o Repr(name)
    IN  IF ~(k + 1 <= n /\ toks[k + 1].text = <<"<">>)
        THEN Raises(ReError(source, <<"missing <">>, Tell(source, toks, k + 1)))
        ELSE IF EndsAt(source, toks, k + 1) THEN BadEscapeAtEnd(source)
        ELSE IF closers = {}
        THEN IF Dangling(source, toks) THEN BadEscapeAtEnd(source)
             ELSE IF k + 2 > n
             THEN Raises(ReError(source, <<"missing group name">>, Len(source)))
             ELSE Raises(ReError(source, <<"missing >, unterminated name">>,
                                 toks[k + 2].pos))
        ELSE IF EndsAt(source, toks, m) THEN BadEscapeAtEnd(source)
        ELSE IF m = k + 2
        THEN Raises(ReError(source, <<"missing group name">>, toks[m].pos))
        ELSE IF IsIdentifier(name)
        THEN Raises([cls |-> "IndexError", message |-> unknown, text |-> unknown])
        ELSE IF ~index.valid \/ index.negative
        THEN Raises(ReError(source, <<"bad character in group name ">> \o Repr(name),
                            toks[k + 2].pos))
        ELSE IF index.digits # <<"0">>
        THEN Raises(ReError(source, <<"invalid group reference ">> \o index.digits,
                            toks[k + 2].pos))
        ELSE Reads(<<GroupZero>>, m + 1)

\* \0 and up to two octal digits after it
ZeroEscape(source, toks, k) ==
    IF ~IsOctalToken(toks, k + 1) THEN Reads(<<CharOf(0)>>, k + 1)
    ELSE IF EndsAt(source, toks, k + 1) THEN BadEscapeAtEnd(source)
    ELSE IF ~IsOctalToken(toks, k + 2)
    THEN Reads(<<CharOf(OctalValue(toks[k + 1].text))>>, k + 2)
    ELSE IF EndsAt(source, toks, k + 2) THEN BadEscapeAtEnd(source)
    ELSE Reads(<<CharOf(OctalValue(toks[k + 1].text \o toks[k + 2].text))>>, k + 3)

\* \1 to \99, a group the pattern has not, and the octal escapes \100 to \777
DigitEscape(source, toks, k) ==
    LET c == toks[k].text[2]
        d == toks[k + 1].text[1]
        e == toks[k + 2].text[1]
        value == OctalValue(<<c, d, e>>)
    IN  IF ~IsDigitToken(toks, k + 1)
        THEN Raises(ReError(source, <<"invalid group reference ", c>>,
                            Tell(source, toks, k + 1) - 1))
        ELSE IF EndsAt(source, toks, k + 1) THEN BadEscapeAtEnd(source)
        ELSE IF c \in OctalDigits /\ d \in OctalDigits /\ IsOctalToken(toks, k + 2)
        THEN IF EndsAt(source, toks, k + 2) THEN BadEscapeAtEnd(source)
             ELSE IF value > 255
             THEN Raises(ReError(source,
                      <<"octal escape value ", "\\", c, d, e, " outside of range 0-0o377">>,
                      Tell(source, toks, k + 3) - 4))
             ELSE Reads(<<CharOf(value)>>, k + 3)
        ELSE Raises(ReError(source, <<"invalid group reference ", c, d>>,
                            Tell(source, toks, k + 2) - 2))

\* one round of parse_template's loop, token k being the next one
ReadToken(source, toks, k) ==
    LET this == toks[k].text
        c == this[2]
    IN  IF EndsAt(source, toks, k) THEN BadEscapeAtEnd(source)
        ELSE IF this[1] # "\\" THEN Reads(this, k + 1)
        ELSE IF c = "g" THEN GroupEscape(source, toks, k)
        ELSE IF c = "0" THEN ZeroEscape(source, toks, k)
        ELSE IF c \in DigitSet THEN DigitEscape(source, toks, k)
        ELSE IF c \in {"a", "b", "f", "n", "r", "t", "v", "\\"}
        THEN Reads(<<EscapeOf(c)>>, k + 1)
        ELSE IF IsAsciiAlpha(c)
        THEN Raises(ReError(source, <<"bad escape ">> \o this, toks[k].pos))
        ELSE Reads(this, k + 1)

\* parse_template from token k on: [exc, parts], the parts being the
\* characters of the replacement and GroupZero where the match goes
RECURSIVE ParseTemplateFrom(_, _, _, _)
ParseTemplateFrom(source, toks, k, out) ==
    LET read == ReadToken(source, toks, k)
    IN  IF k > Len(toks)
        THEN [exc |-> [cls |-> "none", message |-> <<>>, text |-> <<>>], parts |-> out]
        ELSE IF read.exc.cls # "none" THEN [exc |-> read.exc, parts |-> <<>>]
        ELSE ParseTemplateFrom(source, toks, read.next, out \o read.parts)

\* re._compile_repl(sqlite_name, pattern); a name without a backslash is
\* taken as it is
ParseTemplate(sqlite_name) ==
    LET toks == TemplateTokens(sqlite_name, 1)
    IN  IF ~Contains(sqlite_name, "\\")
        THEN [exc |-> [cls |-> "none", message |-> <<>>, text |-> <<>>],
              parts |-> sqlite_name]
        ELSE IF toks = <<>>
        THEN [exc |-> BadEscapeAtEnd(sqlite_name).exc, parts |-> <<>>]
        ELSE ParseTemplateFrom(sqlite_name, toks, 1, <<>>)

\* expand_template: the parts, the match where GroupZero stands
RECURSIVE ExpandTemplate(_, _)
ExpandTemplate(parts, matched) ==
    IF parts = <<>> THEN <<>>
    ELSE (IF Head(parts) = GroupZero THEN matched ELSE <<Head(parts)>>)
         \o ExpandTemplate(Tail(parts), matched)

\* re.sub(pattern, sqlite_name, result, flags=re.IGNORECASE) for the pattern
\* \b<ref>\b (bounded) or <ref> alone, the template of sqlite_name being
\* parts: the matches from the left that do not overlap, a match of no
\* character being followed by the character it stands before
RECURSIVE ReplaceMatches(_, _, _, _, _)
ReplaceMatches(text, i, original_ref, parts, bounded) ==
    LET width == Len(original_ref)
        here == IF i <= Len(text) THEN <<text[i]>> ELSE <<>>
    IN  IF i > Len(text) + 1 THEN <<>>
        ELSE IF /\ AtIgnoreCase(text, i, original_ref)
                /\ bounded => /\ WordBoundary(text, i)
                              /\ WordBoundary(text, i + width)
             THEN ExpandTemplate(parts, SubSeq(text, i, i + width - 1))
                  \o (IF width = 0
                      THEN here \o ReplaceMatches(text, i + 1, original_ref, parts, bounded)
                      ELSE ReplaceMatches(text, i + width, original_ref, parts, bounded))
             ELSE here \o ReplaceMatches(text, i + 1, original_ref, parts, bounded)

ReplaceReference(text, i, original_ref, sqlite_name, bounded) ==
    ReplaceMatches(text, i, original_ref, ParseTemplate(sqlite_name).parts, bounded)

\* what re.sub raises for the template of sqlite_name, NoExc when nothing
ReplaceReferenceRaises(sqlite_name) == ParseTemplate(sqlite_name).exc

\* sorted(mapping.keys(), key=len, reverse=True) on the mapping's items, in
\* insertion order: a stable insertion sort, longest key first
RECURSIVE InsertByLength(_, _)
InsertByLength(sorted, item) ==
    IF sorted = <<>> THEN <<item>>
    ELSE IF Len(Head(sorted).original) >= Len(item.original)
         THEN <<Head(sorted)>> \o InsertByLength(Tail(sorted), item)
         ELSE <<item>> \o sorted

RECURSIVE SortedRefs(_)
SortedRefs(mapping) ==
    IF mapping = <<>> THEN <<>>
    ELSE InsertByLength(SortedRefs(SubSeq(mapping, 1, Len(mapping) - 1)),
                        mapping[Len(mapping)])

RECURSIVE SubstituteEach(_, _)
SubstituteEach(result0, sorted_refs) ==
    IF sorted_refs = <<>> THEN result0
    ELSE LET original_ref == Head(sorted_refs).original
             sqlite_name  == Head(sorted_refs).sqlite_name
         IN  SubstituteEach(
                 ReplaceReference(result0, 1, original_ref, sqlite_name,
                                  ~Contains(original_ref, "'")),
                 Tail(sorted_refs))

\* the first exception a re.sub of the loop raises, NoExc when none does
RECURSIVE SubstituteEachRaises(_)
SubstituteEachRaises(sorted_refs) ==
    IF sorted_refs = <<>> THEN NoExc
    ELSE IF ReplaceReferenceRaises(Head(sorted_refs).sqlite_name) # NoExc
    THEN ReplaceReferenceRaises(Head(sorted_refs).sqlite_name)
    ELSE SubstituteEachRaises(Tail(sorted_refs))

\* the mapping is the sequence of its items [original, sqlite_name] in
\* insertion order, no key twice
substitute_references(query0, mapping) ==
    IF mapping = <<>> THEN query0 ELSE SubstituteEach(query0, SortedRefs(mapping))

\* the exception substitute_references raises, NoExc when it returns
SubstituteReferencesRaises(mapping) == SubstituteEachRaises(SortedRefs(mapping))

\* ------------------------------------------------------------------------
\* executor.py: detect_query_type, split_statements, ExecutionResult
\* ------------------------------------------------------------------------

StatementKeywords ==
    <<[name |-> "SELECT", chars |-> <<"S","E","L","E","C","T">>],
      [name |-> "INSERT", chars |-> <<"I","N","S","E","R","T">>],
      [name |-> "UPDATE", chars |-> <<"U","P","D","A","T","E">>],
      [name |-> "DELETE", chars |-> <<"D","E","L","E","T","E">>],
      [name |-> "CREATE", chars |-> <<"C","R","E","A","T","E">>],
      [name |-> "DROP", chars |-> <<"D","R","O","P">>],
      [name |-> "PRAGMA", chars |-> <<"P","R","A","G","M","A">>],
      [name |-> "EXPLAIN", chars |-> <<"E","X","P","L","A","I","N">>]>>

KwWITH == <<"W","I","T","H">>

KwSELECT == <<"S","E","L","E","C","T">>

\* `lit` in s
ContainsText(s, lit) == \E p \in 1..Len(s) : At(s, p, lit)

detect_query_type(query0) ==
    LET stripped == Upper(Strip(query0))
        hits == {k \in 1..Len(StatementKeywords) : At(stripped, 1, StatementKeywords[k].chars)}
    IN  IF At(stripped, 1, KwWITH)
        THEN IF ContainsText(stripped, KwSELECT) THEN "SELECT" ELSE "OTHER"
        ELSE IF hits # {}
        THEN StatementKeywords[CHOOSE k \in hits : \A j \in hits : k <= j].name
        ELSE "OTHER"

\* SplitFrom with only the single quote opening a run
RECURSIVE SplitFromSingleQuoted(_, _, _, _, _, _)
SplitFromSingleQuoted(sql, i, in_string, string_char, current, statements0) ==
    LET flushed == IF Strip(current) # <<>>
                   THEN Append(statements0, Strip(current))
                   ELSE statements0
    IN  IF i > Len(sql) THEN flushed
        ELSE LET char == sql[i] IN
             IF char = "'" /\ ~in_string
             THEN SplitFromSingleQuoted(sql, i + 1, TRUE, char, Append(current, char), statements0)
             ELSE IF in_string /\ char = string_char
             THEN IF i + 1 <= Len(sql) /\ sql[i + 1] = string_char
                  THEN SplitFromSingleQuoted(sql, i + 2, in_string, string_char,
                                             current \o <<char, char>>, statements0)
                  ELSE SplitFromSingleQuoted(sql, i + 1, FALSE, None, Append(current, char), statements0)
             ELSE IF char = ";" /\ ~in_string
             THEN SplitFromSingleQuoted(sql, i + 1, in_string, string_char, <<>>, flushed)
             ELSE SplitFromSingleQuoted(sql, i + 1, in_string, string_char,
                                        Append(current, char), statements0)

RECURSIVE SplitFrom(_, _, _, _, _, _)
SplitFrom(sql, i, in_string, string_char, current, statements0) ==
    LET flushed == IF Strip(current) # <<>>
                   THEN Append(statements0, Strip(current))
                   ELSE statements0
    IN  IF i > Len(sql) THEN flushed
        ELSE LET char == sql[i] IN
             IF char \in {"'", "\""} /\ ~in_string
             THEN SplitFrom(sql, i + 1, TRUE, char, Append(current, char), statements0)
             ELSE IF in_string /\ char = string_char
             THEN IF i + 1 <= Len(sql) /\ sql[i + 1] = string_char
                  THEN SplitFrom(sql, i + 2, in_string, string_char,
                                 current \o <<char, char>>, statements0)
                  ELSE SplitFrom(sql, i + 1, FALSE, None, Append(current, char), statements0)
             ELSE IF char = ";" /\ ~in_string
             THEN SplitFrom(sql, i + 1, in_string, string_char, <<>>, flushed)
             ELSE SplitFrom(sql, i + 1, in_string, string_char,
                            Append(current, char), statements0)

split_statements(sql) == SplitFrom(sql, 1, FALSE, None, <<>>, <<>>)

\* columns and rows are kept by their numbers
ExecutionResult(ncols, nrows, rowcount, query_type) ==
    [ncols |-> ncols, nrows |-> nrows, rowcount |-> rowcount, query_type |-> query_type]

NoResult == ExecutionResult(0, 0, 0, "<none>")

EmptyResult == ExecutionResult(0, 0, 0, "EMPTY")

\* ExecutionResult.is_select
is_select(result0) ==
    Upper(CharactersOf(result0.query_type)) = CharactersOf("SELECT")

\* execute_query after cursor.execute succeeded: the result it builds from
\* the cursor
ResultOfCursor(query0, cursor) ==
    LET query_type == detect_query_type(query0)
    IN  IF query_type \in {"SELECT", "PRAGMA", "EXPLAIN"}
        THEN ExecutionResult(cursor.ncols, cursor.nrows, cursor.nrows, query_type)
        ELSE ExecutionResult(0, 0, cursor.rowcount, query_type)

\* ------------------------------------------------------------------------
\* The embedded engine (sqlite3 over SQLite 3.40): cursor.execute on the
\* statements of the pipeline.  A database is the set of its tables, each
\* with the name as the engine folds it (key), the name as it was declared,
\* the names of its columns and the number of its rows.  The statements
\* followed are SELECT over constants, columns and * from tables, CREATE
\* TABLE, DROP TABLE, INSERT ... VALUES, DELETE without condition, PRAGMA and
\* EXPLAIN QUERY PLAN; on a statement or a name outside them the answer is
\* "beyond" and the step that executes it is not taken.
\* ------------------------------------------------------------------------

\* the least of a set of numbers
Least(S) == CHOOSE x \in S : \A y \in S : x <= y

\* the numbers of a set in rising order
RECURSIVE InOrder(_)
InOrder(S) == IF S = {} THEN <<>> ELSE <<Least(S)>> \o InOrder(S \ {Least(S)})

\* the words of a text that are set apart by single blanks
WordStarts(text) ==
    {a \in 1..Len(text) :
        SubSeq(text, a, a) # " " /\ (a = 1 \/ SubSeq(text, a - 1, a - 1) = " ")}

WordFrom(text, a) ==
    SubSeq(text, a,
           Least({b \in a..Len(text) : b = Len(text) \/ SubSeq(text, b + 1, b + 1) = " "}))

WordsOf(text) == {WordFrom(text, a) : a \in WordStarts(text)}

\* the words as texts of characters
NamesOf(text) == {CharactersOf(w) : w \in WordsOf(text)}

\* a row of the grammar: the words symbol>next as the function symbol -> next
RowOf(text) ==
    LET gt(w) == CHOOSE i \in 1..Len(w) : SubSeq(w, i, i) = ">"
        entries == {<<SubSeq(w, 1, gt(w) - 1), SubSeq(w, gt(w) + 1, Len(w))>> :
                        w \in WordsOf(text)}
    IN  [s \in {e[1] : e \in entries} |-> (CHOOSE e \in entries : e[1] = s)[2]]

\* the characters of a text as one string
RECURSIVE TextOf(_)
TextOf(chars) == IF chars = <<>> THEN "" ELSE Head(chars) \o TextOf(Tail(chars))

\* sqlite3UpperToLower turned round: the letters a-z only
AsciiUpper(s) ==
    [i \in 1..Len(s) |->
        IF s[i] \in LowerSet THEN UpperChars[PlaceIn(LowerChars, s[i])] ELSE s[i]]

\* the keywords the grammar takes as a name where it has no place for them
\* (parse.y, %fallback ID)
FallbackKeywords ==
    WordsOf(
        "ABORT ACTION AFTER ANALYZE ASC ATTACH BEFORE BEGIN BY CASCADE CAST COLUMN CONFLICT " \o
        "DATABASE DEFERRED DESC DETACH DO EACH END EXCLUSIVE EXPLAIN FAIL FOR IGNORE IMMEDIATE " \o
        "INITIALLY INSTEAD LIKE GLOB REGEXP MATCH NO PLAN QUERY KEY OF OFFSET PRAGMA RAISE " \o
        "RECURSIVE RELEASE REPLACE RESTRICT ROW ROWS ROLLBACK SAVEPOINT TEMP TEMPORARY TRIGGER " \o
        "VACUUM VIEW VIRTUAL WITH WITHOUT NULLS FIRST LAST CURRENT FOLLOWING PARTITION PRECEDING " \o
        "RANGE UNBOUNDED EXCLUDE GROUPS OTHERS TIES GENERATED ALWAYS MATERIALIZED REINDEX RENAME " \o
        "CURRENT_DATE CURRENT_TIME CURRENT_TIMESTAMP IF")

\* the keywords of a join, which can name a table or a column (parse.y, JOIN_KW)
JoinKeywords ==
    WordsOf(
        "CROSS FULL INNER LEFT NATURAL OUTER RIGHT")

\* the keywords that never stand for a name
ReservedKeywords ==
    WordsOf(
        "ADD ALL ALTER AND AS AUTOINCREMENT BETWEEN CASE CHECK COLLATE COMMIT CONSTRAINT CREATE " \o
        "DEFAULT DEFERRABLE DELETE DISTINCT DROP ELSE ESCAPE EXCEPT EXISTS FOREIGN FROM GROUP " \o
        "HAVING IN INDEX INSERT INTERSECT INTO IS ISNULL JOIN LIMIT NOT NOTHING NOTNULL NULL ON " \o
        "OR ORDER PRIMARY REFERENCES RETURNING SELECT SET TABLE THEN TO TRANSACTION UNION UNIQUE " \o
        "UPDATE USING VALUES WHEN WHERE")

\* FILTER, OVER and WINDOW are keywords only where a window can follow
WindowKeywords == {"FILTER", "OVER", "WINDOW"}

\* the 147 keywords of the tokenizer (aKWCode)
EngineKeywords ==
    FallbackKeywords \cup JoinKeywords \cup ReservedKeywords \cup WindowKeywords
        \cup {"INDEXED"}

\* sqlite3Isspace and the blanks the tokenizer starts a run of blanks on
SqlIsspace == CBlanks

SqlSpaces == CBlanks \ {CharOf(11)}

ByteOrderMark == "U+FEFF"

Backtick == CharOf(96)

SqlQuotes == {"'", "\"", Backtick}

SqlHexDigits == DigitSet \cup {"a","b","c","d","e","f","A","B","C","D","E","F"}

AsciiChars == {CharOf(n) : n \in 0..127}

\* z[k], nothing past the end of the text
Ch(z, k) == IF k \in 1..Len(z) THEN z[k] ELSE ""

\* IdChar: a letter, a digit, _ or $ of ASCII, or any character beyond ASCII
IsIdChar(c) == c # "" /\ (IsAsciiWordChar(c) \/ c = "$" \/ c \notin AsciiChars)

\* where a run of characters of the set that starts at j stops: the first
\* position from j on that holds none of them
RunEnd(z, j, set) == Least({k \in j..(Len(z) + 1) : Ch(z, k) \notin set})

IdRunEnd(z, j) == Least({k \in j..(Len(z) + 1) : ~IsIdChar(Ch(z, k))})

\* the first position from j on that holds c, or the end of the text
StopAt(z, j, c) == Least({k \in j..(Len(z) + 1) : k > Len(z) \/ z[k] = c})

Token(kind, len) == [kind |-> kind, len |-> len]

PunctuationKinds ==
    ("(" :> "LP") @@ (")" :> "RP") @@ (";" :> "SEMI") @@ ("+" :> "PLUS")
        @@ ("*" :> "STAR") @@ ("%" :> "REM") @@ ("," :> "COMMA")
        @@ ("&" :> "BITAND") @@ ("~" :> "BITNOT")

\* sqlite3GetToken, branch by branch: the token that begins at p
SpaceToken(z, p) ==
    IF z[p] = ByteOrderMark THEN Token("SPACE", 1)
    ELSE Token("SPACE", RunEnd(z, p + 1, SqlIsspace) - p)

MinusToken(z, p) ==
    IF Ch(z, p + 1) = "-" THEN Token("SPACE", StopAt(z, p + 2, "\n") - p)
    ELSE IF Ch(z, p + 1) = ">" THEN Token("PTR", IF Ch(z, p + 2) = ">" THEN 3 ELSE 2)
    ELSE Token("MINUS", 1)

SlashToken(z, p) ==
    LET closers == {k \in (p + 3)..Len(z) : z[k - 1] = "*" /\ z[k] = "/"}
    IN  IF Ch(z, p + 1) # "*" \/ p + 2 > Len(z) THEN Token("SLASH", 1)
        ELSE IF closers = {} THEN Token("SPACE", Len(z) - p + 1)
        ELSE Token("SPACE", Least(closers) - p + 1)

LessToken(z, p) ==
    LET d == Ch(z, p + 1)
    IN  IF d = "=" THEN Token("LE", 2)
        ELSE IF d = ">" THEN Token("NE", 2)
        ELSE IF d = "<" THEN Token("LSHIFT", 2)
        ELSE Token("LT", 1)

GreaterToken(z, p) ==
    LET d == Ch(z, p + 1)
    IN  IF d = "=" THEN Token("GE", 2)
        ELSE IF d = ">" THEN Token("RSHIFT", 2)
        ELSE Token("GT", 1)

\* the quote that closes the run opened before j, a doubled quote standing
\* for itself; 0 when the text ends first
RECURSIVE QuoteEnd(_, _, _)
QuoteEnd(z, j, q) ==
    IF j > Len(z) THEN 0
    ELSE IF z[j] = q
    THEN IF Ch(z, j + 1) = q THEN QuoteEnd(z, j + 2, q) ELSE j
    ELSE QuoteEnd(z, j + 1, q)

QuotedToken(z, p) ==
    LET e == QuoteEnd(z, p + 1, z[p])
    IN  IF e = 0 THEN Token("ILLEGAL", Len(z) - p + 1)
        ELSE Token(IF z[p] = "'" THEN "STRING" ELSE "ID", e - p + 1)

NumberToken(z, p) ==
    LET a == RunEnd(z, p, DigitSet)
        b == IF Ch(z, a) = "." THEN RunEnd(z, a + 1, DigitSet) ELSE a
        exponent ==
            /\ Ch(z, b) \in {"e", "E"}
            /\ \/ Ch(z, b + 1) \in DigitSet
               \/ Ch(z, b + 1) \in {"+", "-"} /\ Ch(z, b + 2) \in DigitSet
        d == IF exponent THEN RunEnd(z, b + 2, DigitSet) ELSE b
        e == IdRunEnd(z, d)
    IN  IF z[p] = "0" /\ Ch(z, p + 1) \in {"x", "X"} /\ Ch(z, p + 2) \in SqlHexDigits
        THEN Token("INTEGER", RunEnd(z, p + 3, SqlHexDigits) - p)
        ELSE Token(IF e > d THEN "ILLEGAL"
                   ELSE IF Ch(z, a) = "." \/ exponent THEN "FLOAT"
                   ELSE "INTEGER",
                   e - p)

BracketToken(z, p) ==
    LET e == FindChar(z, "]", p + 1)
    IN  IF e = 0 THEN Token("ILLEGAL", Len(z) - p + 1) ELSE Token("ID", e - p + 1)

\* the name of a parameter after $ @ : #: where it stops, the number of its
\* name characters and whether a bracketed tail is closed
RECURSIVE ParameterNameEnd(_, _, _)
ParameterNameEnd(z, j, cnt) ==
    IF j > Len(z) THEN [stop |-> j, cnt |-> cnt, closed |-> TRUE]
    ELSE IF IsIdChar(z[j]) THEN ParameterNameEnd(z, j + 1, cnt + 1)
    ELSE IF z[j] = "(" /\ cnt > 0
    THEN LET e == Least({k \in (j + 1)..(Len(z) + 1) :
                            k > Len(z) \/ z[k] \in SqlIsspace \/ z[k] = ")"})
         IN  IF Ch(z, e) = ")"
             THEN [stop |-> e + 1, cnt |-> cnt, closed |-> TRUE]
             ELSE [stop |-> e, cnt |-> cnt, closed |-> FALSE]
    ELSE IF z[j] = ":" /\ Ch(z, j + 1) = ":" THEN ParameterNameEnd(z, j + 2, cnt)
    ELSE [stop |-> j, cnt |-> cnt, closed |-> TRUE]

ParameterToken(z, p) ==
    LET e == ParameterNameEnd(z, p + 1, 0)
    IN  Token(IF e.closed /\ e.cnt > 0 THEN "VARIABLE" ELSE "ILLEGAL", e.stop - p)

BlobToken(z, p) ==
    LET j == RunEnd(z, p + 2, SqlHexDigits)
        bad == Ch(z, j) # "'" \/ (j - p) % 2 = 1
        e == IF bad THEN StopAt(z, j, "'") ELSE j
    IN  Token(IF bad THEN "ILLEGAL" ELSE "BLOB", (IF e <= Len(z) THEN e + 1 ELSE e) - p)

WordToken(z, p) ==
    LET a == RunEnd(z, p + 1, UpperSet \cup LowerSet \cup {"_"})
        word == TextOf(AsciiUpper(SubSeq(z, p, a - 1)))
    IN  IF IsIdChar(Ch(z, a)) THEN Token("ID", IdRunEnd(z, a) - p)
        ELSE Token(IF word \in EngineKeywords THEN word ELSE "ID", a - p)

GetToken(z, p) ==
    LET c == z[p]
    IN  IF c \in SqlSpaces \/ c = ByteOrderMark THEN SpaceToken(z, p)
        ELSE IF c = "-" THEN MinusToken(z, p)
        ELSE IF c \in DOMAIN PunctuationKinds THEN Token(PunctuationKinds[c], 1)
        ELSE IF c = "/" THEN SlashToken(z, p)
        ELSE IF c = "=" THEN Token("EQ", IF Ch(z, p + 1) = "=" THEN 2 ELSE 1)
        ELSE IF c = "<" THEN LessToken(z, p)
        ELSE IF c = ">" THEN GreaterToken(z, p)
        ELSE IF c = "!" THEN IF Ch(z, p + 1) = "=" THEN Token("NE", 2) ELSE Token("ILLEGAL", 1)
        ELSE IF c = "|" THEN IF Ch(z, p + 1) = "|" THEN Token("CONCAT", 2) ELSE Token("BITOR", 1)
        ELSE IF c \in SqlQuotes THEN QuotedToken(z, p)
        ELSE IF c = "." /\ Ch(z, p + 1) \notin DigitSet THEN Token("DOT", 1)
        ELSE IF c \in DigitSet \/ c = "." THEN NumberToken(z, p)
        ELSE IF c = "[" THEN BracketToken(z, p)
        ELSE IF c = "?" THEN Token("VARIABLE", RunEnd(z, p + 1, DigitSet) - p)
        ELSE IF c \in {"$", "@", ":", "#"} THEN ParameterToken(z, p)
        ELSE IF c \in {"x", "X"} /\ Ch(z, p + 1) = "'" THEN BlobToken(z, p)
        ELSE IF IsAsciiAlpha(c) \/ c = "_" THEN WordToken(z, p)
        ELSE IF c \notin AsciiChars THEN Token("ID", IdRunEnd(z, p + 1) - p)
        ELSE Token("ILLEGAL", 1)

\* getToken of tokenize.c: the kind of the next token that is no blank, every
\* word that can be a name given as ID, and where the token stops
RECURSIVE NextKind(_, _)
KindOfToken(z, p, t) ==
    IF t.kind = "SPACE" THEN NextKind(z, p + t.len)
    ELSE [kind |-> IF t.kind \in {"ID", "STRING", "WINDOW", "OVER"}
                                 \cup FallbackKeywords \cup JoinKeywords
                       THEN "ID" ELSE t.kind,
          stop |-> p + t.len]

NextKind(z, p) ==
    IF p > Len(z) THEN [kind |-> "$", stop |-> p]
    ELSE KindOfToken(z, p, GetToken(z, p))

\* analyzeWindowKeyword, analyzeOverKeyword, analyzeFilterKeyword
WindowKindBefore(z, word, last, first) ==
    IF word = "WINDOW"
    THEN IF first.kind = "ID" /\ NextKind(z, first.stop).kind = "AS"
         THEN "WINDOW" ELSE "ID"
    ELSE IF word = "OVER"
    THEN IF last = "RP" /\ first.kind \in {"LP", "ID"} THEN "OVER" ELSE "ID"
    ELSE IF last = "RP" /\ first.kind = "LP" THEN "FILTER" ELSE "ID"

WindowKind(z, word, stop, last) == WindowKindBefore(z, word, last, NextKind(z, stop))

\* sqlite3RunParser's reading of the first statement from p on: its tokens,
\* blanks and comments left out, up to and including the ; that ends it or
\* the token that is none, and where its text stops.  A ; with no statement
\* before it is passed over
RECURSIVE TokensFrom(_, _, _)
TokensAfter(z, stop, out, token) ==
    IF token.kind = "SPACE" \/ (token.kind = "SEMI" /\ out = <<>>)
    THEN TokensFrom(z, stop, out)
    ELSE IF token.kind \in {"SEMI", "ILLEGAL"}
    THEN [tokens |-> Append(out, token), stop |-> stop]
    ELSE TokensFrom(z, stop, Append(out, token))

\* the token at p as the parser is given it: a word of the window functions
\* is a keyword or a name by what stands around it
ParserToken(z, p, out, t) ==
    [kind |-> IF t.kind \in WindowKeywords
              THEN WindowKind(z, t.kind, p + t.len,
                              IF out = <<>> THEN "SEMI" ELSE out[Len(out)].kind)
              ELSE t.kind,
     text |-> SubSeq(z, p, p + t.len - 1)]

TokensFrom(z, p, out) ==
    IF p > Len(z) THEN [tokens |-> out, stop |-> p]
    ELSE TokensAfter(z, p + GetToken(z, p).len, out, ParserToken(z, p, out, GetToken(z, p)))

\* the statements followed, as the states of a parser: in a state, symbol>next
\* says that the symbol leads to the state next.  A symbol is the kind of a
\* token, or name (an identifier, a string, INDEXED or a join keyword), ids (an
\* identifier or a string), idj (an identifier, INDEXED or a join keyword), or
\* . (the end of the statement)
GrammarOf ==
    ("start" :> RowOf("EXPLAIN>explain SELECT>select CREATE>create DROP>drop INSERT>insert " \o
            "DELETE>delete PRAGMA>pragma .>empty"))
        @@
    ("explain" :> RowOf("QUERY>query"))
        @@
    ("query" :> RowOf("PLAN>cmd"))
        @@
    ("cmd" :> RowOf("SELECT>select CREATE>create DROP>drop INSERT>insert DELETE>delete " \o
            "PRAGMA>pragma"))
        @@
    ("select" :> RowOf("STAR>star VARIABLE>term idj>column STRING>string INTEGER>term FLOAT>term " \o
            "BLOB>term NULL>term"))
        @@
    ("item" :> RowOf("STAR>star VARIABLE>term idj>column STRING>string INTEGER>term FLOAT>term " \o
            "BLOB>term NULL>term"))
        @@
    ("string" :> RowOf("AS>as ids>alias COMMA>item FROM>from WHERE>where LIMIT>limit .>end"))
        @@
    ("star" :> RowOf("COMMA>item FROM>from WHERE>where LIMIT>limit .>end"))
        @@
    ("term" :> RowOf("AS>as ids>alias COMMA>item FROM>from WHERE>where LIMIT>limit .>end"))
        @@
    ("column" :> RowOf("AS>as ids>alias COMMA>item FROM>from WHERE>where LIMIT>limit .>end"))
        @@
    ("as" :> RowOf("name>alias"))
        @@
    ("alias" :> RowOf("COMMA>item FROM>from WHERE>where LIMIT>limit .>end"))
        @@
    ("from" :> RowOf("name>source"))
        @@
    ("source" :> RowOf("AS>source_as ids>source_alias JOIN>from COMMA>from WHERE>where LIMIT>limit " \o
            ".>end"))
        @@
    ("source_as" :> RowOf("name>source_alias"))
        @@
    ("source_alias" :> RowOf("JOIN>from COMMA>from WHERE>where LIMIT>limit .>end"))
        @@
    ("where" :> RowOf("INTEGER>condition NULL>condition"))
        @@
    ("condition" :> RowOf("LIMIT>limit .>end"))
        @@
    ("limit" :> RowOf("INTEGER>limited"))
        @@
    ("limited" :> RowOf(".>end"))
        @@
    ("create" :> RowOf("TABLE>create_table"))
        @@
    ("create_table" :> RowOf("name>created"))
        @@
    ("created" :> RowOf("LP>columns"))
        @@
    ("columns" :> RowOf("name>column_name"))
        @@
    ("more_columns" :> RowOf("name>column_name"))
        @@
    ("column_name" :> RowOf("ids>column_type COMMA>more_columns RP>table_end"))
        @@
    ("column_type" :> RowOf("ids>column_type COMMA>more_columns RP>table_end"))
        @@
    ("table_end" :> RowOf("name>table_option .>end"))
        @@
    ("table_option" :> RowOf(".>end"))
        @@
    ("drop" :> RowOf("TABLE>drop_table"))
        @@
    ("drop_table" :> RowOf("name>dropped"))
        @@
    ("dropped" :> RowOf(".>end"))
        @@
    ("insert" :> RowOf("INTO>insert_into"))
        @@
    ("insert_into" :> RowOf("name>insert_table"))
        @@
    ("insert_table" :> RowOf("VALUES>values LP>insert_cols"))
        @@
    ("insert_cols" :> RowOf("name>insert_col"))
        @@
    ("insert_col" :> RowOf("COMMA>insert_cols RP>insert_listed"))
        @@
    ("insert_listed" :> RowOf("VALUES>values"))
        @@
    ("values" :> RowOf("LP>value"))
        @@
    ("value" :> RowOf("VARIABLE>value_term idj>value_column STRING>value_string INTEGER>value_term " \o
            "FLOAT>value_term BLOB>value_term NULL>value_term"))
        @@
    ("value_string" :> RowOf("COMMA>value RP>inserted"))
        @@
    ("value_term" :> RowOf("COMMA>value RP>inserted"))
        @@
    ("value_column" :> RowOf("COMMA>value RP>inserted"))
        @@
    ("inserted" :> RowOf(".>end"))
        @@
    ("delete" :> RowOf("FROM>delete_from"))
        @@
    ("delete_from" :> RowOf("name>deleted"))
        @@
    ("deleted" :> RowOf(".>end"))
        @@
    ("pragma" :> RowOf("name>pragma_name"))
        @@
    ("pragma_name" :> RowOf("LP>pragma_arg EQ>pragma_eq .>end"))
        @@
    ("pragma_arg" :> RowOf("name>pragma_value ON>pragma_value"))
        @@
    ("pragma_value" :> RowOf("RP>pragma_end"))
        @@
    ("pragma_eq" :> RowOf("name>pragma_given ON>pragma_given"))
        @@
    ("pragma_given" :> RowOf(".>end"))
        @@
    ("pragma_end" :> RowOf(".>end"))

\* the places where SQLite's grammar goes on and the statements followed here do
\* not: the kinds of token SQLite accepts in a state beyond those of GrammarOf;
\* what such a statement does is not followed
BeyondTable ==
    ("start" :> WordsOf("ALTER ANALYZE ATTACH BEGIN COMMIT DETACH END REINDEX RELEASE REPLACE ROLLBACK " \o
            "SAVEPOINT UPDATE VACUUM VALUES WITH"))
        @@
    ("explain" :> WordsOf("ALTER ANALYZE ATTACH BEGIN COMMIT CREATE DELETE DETACH DROP END INSERT PRAGMA " \o
            "REINDEX RELEASE REPLACE ROLLBACK SAVEPOINT SELECT UPDATE VACUUM VALUES WITH"))
        @@
    ("cmd" :> WordsOf("ALTER ANALYZE ATTACH BEGIN COMMIT DETACH END REINDEX RELEASE REPLACE ROLLBACK " \o
            "SAVEPOINT UPDATE VACUUM VALUES WITH"))
        @@
    ("select" :> WordsOf("ALL BITNOT CASE CAST CURRENT_DATE CURRENT_TIME CURRENT_TIMESTAMP DISTINCT " \o
            "EXISTS LP MINUS NOT PLUS RAISE"))
        @@
    ("item" :> WordsOf("BITNOT CASE CAST CURRENT_DATE CURRENT_TIME CURRENT_TIMESTAMP EXISTS LP MINUS " \o
            "NOT PLUS RAISE"))
        @@
    ("string" :> WordsOf("AND BETWEEN BITAND BITOR COLLATE CONCAT DOT EQ EXCEPT GE GLOB GROUP GT HAVING " \o
            "IN INTERSECT IS ISNULL LE LIKE LSHIFT LT MATCH MINUS NE NOT NOTNULL OR ORDER " \o
            "PLUS PTR REGEXP REM RSHIFT SLASH STAR UNION WINDOW"))
        @@
    ("star" :> WordsOf("EXCEPT GROUP HAVING INTERSECT ORDER UNION WINDOW"))
        @@
    ("term" :> WordsOf("AND BETWEEN BITAND BITOR COLLATE CONCAT EQ EXCEPT GE GLOB GROUP GT HAVING IN " \o
            "INTERSECT IS ISNULL LE LIKE LSHIFT LT MATCH MINUS NE NOT NOTNULL OR ORDER PLUS " \o
            "PTR REGEXP REM RSHIFT SLASH STAR UNION WINDOW"))
        @@
    ("column" :> WordsOf("AND BETWEEN BITAND BITOR COLLATE CONCAT DOT EQ EXCEPT GE GLOB GROUP GT HAVING " \o
            "IN INTERSECT IS ISNULL LE LIKE LP LSHIFT LT MATCH MINUS NE NOT NOTNULL OR " \o
            "ORDER PLUS PTR REGEXP REM RSHIFT SLASH STAR UNION WINDOW"))
        @@
    ("alias" :> WordsOf("EXCEPT GROUP HAVING INTERSECT ORDER UNION WINDOW"))
        @@
    ("from" :> WordsOf("LP"))
        @@
    ("source" :> WordsOf("LP DOT CROSS EXCEPT FULL GROUP HAVING INDEXED INNER INTERSECT LEFT NATURAL NOT " \o
            "ON ORDER OUTER RIGHT UNION USING WINDOW"))
        @@
    ("source_alias" :> WordsOf("CROSS EXCEPT FULL GROUP HAVING INDEXED INNER INTERSECT LEFT NATURAL NOT ON " \o
            "ORDER OUTER RIGHT UNION USING WINDOW"))
        @@
    ("where" :> WordsOf("ID STRING FLOAT BLOB VARIABLE LP PLUS BITNOT MINUS CASE CROSS EXISTS FULL " \o
            "INDEXED INNER LEFT NATURAL NOT OUTER RIGHT"))
        @@
    ("condition" :> WordsOf("PLUS STAR REM BITAND MINUS PTR SLASH EQ LE NE LSHIFT LT GE RSHIFT GT CONCAT " \o
            "BITOR AND BETWEEN COLLATE EXCEPT GLOB GROUP HAVING IN INTERSECT IS ISNULL LIKE " \o
            "MATCH NOT NOTNULL OR ORDER REGEXP UNION WINDOW"))
        @@
    ("limit" :> WordsOf("ID STRING FLOAT BLOB VARIABLE LP PLUS BITNOT MINUS CASE CROSS EXISTS FULL " \o
            "INDEXED INNER LEFT NATURAL NOT NULL OUTER RIGHT"))
        @@
    ("limited" :> WordsOf("PLUS STAR REM COMMA BITAND MINUS PTR SLASH EQ LE NE LSHIFT LT GE RSHIFT GT " \o
            "CONCAT BITOR AND BETWEEN COLLATE EXCEPT GLOB IN INTERSECT IS ISNULL LIKE MATCH " \o
            "NOT NOTNULL OFFSET OR REGEXP UNION"))
        @@
    ("create" :> WordsOf("INDEX TEMP TEMPORARY TRIGGER UNIQUE VIEW VIRTUAL"))
        @@
    ("create_table" :> WordsOf("IF"))
        @@
    ("created" :> WordsOf("DOT AS"))
        @@
    ("more_columns" :> WordsOf("CHECK CONSTRAINT FOREIGN PRIMARY UNIQUE"))
        @@
    ("column_name" :> WordsOf("AS CHECK COLLATE CONSTRAINT DEFAULT DEFERRABLE NOT NULL PRIMARY REFERENCES " \o
            "UNIQUE"))
        @@
    ("column_type" :> WordsOf("LP AS CHECK COLLATE CONSTRAINT DEFAULT DEFERRABLE NOT NULL PRIMARY REFERENCES " \o
            "UNIQUE"))
        @@
    ("table_end" :> WordsOf("COMMA WITHOUT"))
        @@
    ("table_option" :> WordsOf("COMMA"))
        @@
    ("drop" :> WordsOf("INDEX TRIGGER VIEW"))
        @@
    ("drop_table" :> WordsOf("IF"))
        @@
    ("dropped" :> WordsOf("DOT"))
        @@
    ("insert" :> WordsOf("OR"))
        @@
    ("insert_table" :> WordsOf("DOT AS DEFAULT SELECT WITH"))
        @@
    ("insert_listed" :> WordsOf("DEFAULT SELECT WITH"))
        @@
    ("value" :> WordsOf("BITNOT CASE CAST CURRENT_DATE CURRENT_TIME CURRENT_TIMESTAMP EXISTS LP MINUS " \o
            "NOT PLUS RAISE"))
        @@
    ("value_string" :> WordsOf("PLUS STAR REM BITAND MINUS PTR SLASH EQ LE NE LSHIFT LT GE RSHIFT GT CONCAT " \o
            "BITOR DOT AND BETWEEN COLLATE GLOB IN IS ISNULL LIKE MATCH NOT NOTNULL OR " \o
            "REGEXP"))
        @@
    ("value_term" :> WordsOf("PLUS STAR REM BITAND MINUS PTR SLASH EQ LE NE LSHIFT LT GE RSHIFT GT CONCAT " \o
            "BITOR AND BETWEEN COLLATE GLOB IN IS ISNULL LIKE MATCH NOT NOTNULL OR REGEXP"))
        @@
    ("value_column" :> WordsOf("LP PLUS STAR REM BITAND MINUS PTR SLASH EQ LE NE LSHIFT LT GE RSHIFT GT CONCAT " \o
            "BITOR DOT AND BETWEEN COLLATE GLOB IN IS ISNULL LIKE MATCH NOT NOTNULL OR " \o
            "REGEXP"))
        @@
    ("inserted" :> WordsOf("COMMA EXCEPT INTERSECT ON RETURNING UNION"))
        @@
    ("deleted" :> WordsOf("DOT AS INDEXED LIMIT NOT ORDER RETURNING WHERE"))
        @@
    ("pragma_name" :> WordsOf("DOT"))
        @@
    ("pragma_arg" :> WordsOf("INTEGER FLOAT PLUS MINUS DEFAULT DELETE"))
        @@
    ("pragma_eq" :> WordsOf("INTEGER FLOAT PLUS MINUS DEFAULT DELETE"))

BeyondOf ==
    [s \in DOMAIN GrammarOf |-> IF s \in DOMAIN BeyondTable THEN BeyondTable[s] ELSE {}]

\* the symbols under which a token can be shifted, the most specific first
ClassesOf(kind) ==
    IF kind = "ID" THEN <<"ID", "idj", "ids", "name">>
    ELSE IF kind = "STRING" THEN <<"STRING", "ids", "name">>
    ELSE IF kind \in FallbackKeywords THEN <<kind, "ID", "idj", "ids", "name">>
    ELSE IF kind \in JoinKeywords \/ kind = "INDEXED" THEN <<kind, "idj", "name">>
    ELSE IF kind \in {"SEMI", "$"} THEN <<".">>
    ELSE <<kind>>

\* the state after a token of the kind, "syntax" where SQLite refuses the
\* token and "beyond" where SQLite goes on and the grammar here does not: the
\* token is taken as what it is where there is a place for it, and as the
\* name it can stand for otherwise
StepUnder(row, beyond, cs) ==
    LET hits == {i \in 1..Len(cs) : cs[i] \in DOMAIN row \/ cs[i] \in beyond}
    IN  IF hits = {} THEN "syntax"
        ELSE IF cs[Least(hits)] \in DOMAIN row THEN row[cs[Least(hits)]]
        ELSE "beyond"

Step(state, kind) == StepUnder(GrammarOf[state], BeyondOf[state], ClassesOf(kind))

\* the parse of the tokens from the k-th on: trail[k] is the state the k-th
\* token led to; status ok, syntax, beyond or illegal, and the place of the
\* token that stopped it (one past the last token: the end of the text)
RECURSIVE ParseFrom(_, _, _, _)
ParseAfter(tokens, k, trail, nxt) ==
    IF nxt \in {"syntax", "beyond"}
    THEN [status |-> nxt, stop |-> k, trail |-> trail]
    ELSE IF nxt \in {"end", "empty"}
    THEN [status |-> "ok", stop |-> k, trail |-> Append(trail, nxt)]
    ELSE ParseFrom(tokens, k + 1, nxt, Append(trail, nxt))

ParseFrom(tokens, k, state, trail) ==
    LET kind == IF k > Len(tokens) THEN "$" ELSE tokens[k].kind
    IN  IF kind = "ILLEGAL" THEN [status |-> "illegal", stop |-> k, trail |-> trail]
        ELSE ParseAfter(tokens, k, trail, Step(state, kind))

\* the names the engine answers from a module of its own
ModuleNames ==
    NamesOf(
        "dbstat fts3 fts3tokenize fts4 fts4aux fts5 fts5vocab json_each json_tree rtree rtree_i32 " \o
        "sqlite_stmt")

\* the pragmas the engine knows (PRAGMA pragma_list)
PragmaNames ==
    NamesOf(
        "analysis_limit application_id auto_vacuum automatic_index busy_timeout cache_size " \o
        "cache_spill case_sensitive_like cell_size_check checkpoint_fullfsync collation_list " \o
        "compile_options count_changes data_version database_list default_cache_size " \o
        "defer_foreign_keys empty_result_callbacks encoding foreign_key_check foreign_key_list " \o
        "foreign_keys freelist_count full_column_names fullfsync function_list hard_heap_limit " \o
        "ignore_check_constraints incremental_vacuum index_info index_list index_xinfo " \o
        "integrity_check journal_mode journal_size_limit legacy_alter_table locking_mode " \o
        "max_page_count mmap_size module_list optimize page_count page_size pragma_list " \o
        "query_only quick_check read_uncommitted recursive_triggers reverse_unordered_selects " \o
        "schema_version secure_delete short_column_names shrink_memory soft_heap_limit " \o
        "synchronous table_info table_list table_xinfo temp_store temp_store_directory threads " \o
        "trusted_schema user_version wal_autocheckpoint wal_checkpoint writable_schema")

RowidNames == NamesOf("rowid oid _rowid_")

\* SQLITE_MAX_VARIABLE_NUMBER
MaxVariableNumber == 250000

\* row counts beyond this one are not followed
RowsCap == 16777216

\* sqlite3Dequote
RECURSIVE UndoubleQuote(_, _)
UndoubleQuote(s, q) ==
    IF s = <<>> THEN <<>>
    ELSE <<Head(s)>> \o UndoubleQuote(Tail0(s, IF Head(s) = q THEN 3 ELSE 2), q)

Dequote(text) ==
    IF text[1] = "[" THEN SubSeq(text, 2, Len(text) - 1)
    ELSE IF text[1] \in SqlQuotes
    THEN UndoubleQuote(SubSeq(text, 2, Len(text) - 1), text[1])
    ELSE text

\* the name under which the engine keeps what the text names
KeyOf(text) == AsciiLower(Dequote(text))

\* the names the engine keeps for itself or answers from a module
IsReserved(key) ==
    \/ At(key, 1, CharactersOf("sqlite_"))
    \/ At(key, 1, CharactersOf("pragma_"))
    \/ key \in ModuleNames

\* the places of the tokens that led to one of the states
AtState(trail, states) == {k \in 1..Len(trail) : trail[k] \in states}

Keys(db) == {t.key : t \in db}

TableOf(db, key) == CHOOSE t \in db : t.key = key

Table(key, name, columns, nrows) ==
    [key |-> key, name |-> name, columns |-> columns, nrows |-> nrows]

\* what the cursor holds after a statement: the length of its description
\* (0 when it has none), the rows it gives and its rowcount
Cursor(ncols, nrows, rowcount) == [ncols |-> ncols, nrows |-> nrows, rowcount |-> rowcount]

\* the outcomes of a statement: it ran, the engine raised, or it is outside
\* the statements followed
Ran(ncols, nrows, changes, db) ==
    [status |-> "ok", exc |-> NoExc, cursor |-> Cursor(ncols, nrows, changes), db |-> db]

Raised(e, db) ==
    [status |-> "error", exc |-> e, cursor |-> Cursor(0, 0, -1), db |-> db]

Beyond(db) ==
    [status |-> "beyond", exc |-> NoExc, cursor |-> Cursor(0, 0, -1), db |-> db]

OperationalError(message) == ForeignError("OperationalError", message)

\* sqlite3 refuses a statement whose parameters are not all bound
BindingError(uses, supplied) ==
    ForeignError("ProgrammingError",
        <<"Incorrect number of bindings supplied. The current statement uses ",
          ToString(uses), ", and there are ", ToString(supplied), " supplied.">>)

DecimalDigitChars == <<"0","1","2","3","4","5","6","7","8","9">>

\* the number a run of digits stands for
RECURSIVE DecimalValue(_)
DecimalValue(digits) ==
    IF digits = <<>> THEN 0
    ELSE DecimalValue(SubSeq(digits, 1, Len(digits) - 1)) * 10
            + PlaceIn(DecimalDigitChars, digits[Len(digits)]) - 1

\* str.lstrip("0")
RECURSIVE WithoutZeros(_)
WithoutZeros(digits) ==
    IF digits # <<>> /\ Head(digits) = "0" THEN WithoutZeros(Tail(digits)) ELSE digits

\* sqlite3ExprAssignVarNumber over the parameters among the first `upto`
\* tokens: the number of parameters of the statement, the place of the
\* first token whose number is out of range (0 when there is none), and
\* whether it is a parameter without a number that went past the limit
RECURSIVE VariableNumbersFrom(_, _, _, _, _)
VariableNumbersFrom(tokens, k, upto, top, names) ==
    IF k > upto THEN [top |-> top, bad |-> 0, many |-> FALSE]
    ELSE IF tokens[k].kind # "VARIABLE"
    THEN VariableNumbersFrom(tokens, k + 1, upto, top, names)
    ELSE LET text == tokens[k].text
             numbered == Len(text) > 1 /\ text[1] = "?"
             digits == WithoutZeros(Tail(text))
             known == {n \in names : n.text = text}
             x == IF text = <<"?">> THEN top + 1
                  ELSE IF numbered THEN DecimalValue(digits)
                  ELSE IF known # {} THEN (CHOOSE n \in known : TRUE).x
                  ELSE top + 1
             refused == numbered /\ (Len(digits) > 6 \/ digits = <<>>
                                      \/ x > MaxVariableNumber)
         IN  IF refused THEN [top |-> top, bad |-> k, many |-> FALSE]
             ELSE IF x > MaxVariableNumber THEN [top |-> top, bad |-> k, many |-> TRUE]
             ELSE VariableNumbersFrom(tokens, k + 1, upto, IF x > top THEN x ELSE top,
                      IF text[1] # "?" THEN names \cup {[text |-> text, x |-> x]}
                      ELSE names)

VariableNumbers(tokens, upto) ==
    VariableNumbersFrom(tokens, 1, IF upto < Len(tokens) THEN upto ELSE Len(tokens), 0, {})

\* what the parser's actions raise before the statement is read to its end:
\* each with the place of the token at which it is raised
Refusal(at, e) == [at |-> at, beyond |-> FALSE, exc |-> e]

VariableRefusals(tokens, trail) ==
    LET numbers == VariableNumbers(tokens, Len(trail))
    IN  (IF numbers.bad = 0 THEN {}
         ELSE {Refusal(numbers.bad + 1, OperationalError(
                   IF numbers.many THEN <<"too many SQL variables">>
                   ELSE <<"variable number must be between ?1 and ?250000">>))})
        \cup
        {Refusal(k + 1, OperationalError(
                   <<"near \"">> \o tokens[k].text \o <<"\": syntax error">>)) :
            k \in {j \in 1..Len(trail) :
                      /\ j <= Len(tokens)
                      /\ tokens[j].kind = "VARIABLE"
                      /\ tokens[j].text[1] = "#"
                      /\ tokens[j].text[2] \in DigitSet}}

CreatedRefusals(db, tokens, trail) ==
    {Refusal(k + 1,
        IF At(KeyOf(tokens[k].text), 1, CharactersOf("sqlite_"))
        THEN OperationalError(<<"object name reserved for internal use: ">>
                                  \o Dequote(tokens[k].text))
        ELSE OperationalError(<<"table ">> \o tokens[k].text \o <<" already exists">>)) :
        k \in {j \in AtState(trail, {"created"}) :
                  \/ At(KeyOf(tokens[j].text), 1, CharactersOf("sqlite_"))
                  \/ KeyOf(tokens[j].text) \in Keys(db)}}

ColumnRefusals(tokens, trail) ==
    LET cols == AtState(trail, {"column_name"})
        again == {k \in cols :
                     \E j \in cols : j < k /\ KeyOf(tokens[j].text) = KeyOf(tokens[k].text)}
        after(k) == Least({j \in (k + 1)..(Len(trail) + 1) :
                              j > Len(trail) \/ trail[j] # "column_type"})
    IN  IF again = {} THEN {}
        ELSE {Refusal(after(Least(again)),
                  OperationalError(<<"duplicate column name: ">>
                                       \o Dequote(tokens[Least(again)].text)))}

OptionRefusals(tokens, trail) ==
    {IF KeyOf(tokens[k].text) = CharactersOf("strict")
     THEN [at |-> k + 1, beyond |-> TRUE, exc |-> NoExc]
     ELSE Refusal(k + 1, OperationalError(<<"unknown table option: ">> \o tokens[k].text)) :
        k \in AtState(trail, {"table_option"})}

MidParseRefusals(db, tokens, trail) ==
    VariableRefusals(tokens, trail) \cup CreatedRefusals(db, tokens, trail)
        \cup ColumnRefusals(tokens, trail) \cup OptionRefusals(tokens, trail)

AllDecimal(text) == \A i \in 1..Len(text) : text[i] \in DigitSet

\* a constant as a condition: "true", "false", or "beyond"
TruthOf(token) ==
    IF token.kind = "NULL" THEN "false"
    ELSE IF token.kind = "INTEGER" /\ AllDecimal(token.text)
    THEN IF \E i \in 1..Len(token.text) : token.text[i] # "0" THEN "true" ELSE "false"
    ELSE "beyond"

\* the number of a LIMIT: -1 when it is beyond every row count followed, -2
\* when it is not followed
LimitOf(text) ==
    IF ~AllDecimal(text) \/ Len(WithoutZeros(text)) > 18 THEN -2
    ELSE IF Len(WithoutZeros(text)) > 9 THEN -1
    ELSE DecimalValue(WithoutZeros(text))

\* an identifier as an expression over the sources: NoExc, or the error
ResolveColumn(token, sources, db) ==
    LET name == Dequote(token.text)
        key == AsciiLower(name)
        columns(n) == TableOf(db, sources[n].key).columns
        hits == UNION {{<<n, i>> : i \in {j \in 1..Len(columns(n)) :
                                              AsciiLower(columns(n)[j]) = key}} :
                          n \in 1..Len(sources)}
    IN  IF Cardinality(hits) = 1 THEN NoExc
        ELSE IF Cardinality(hits) > 1
        THEN OperationalError(<<"ambiguous column name: ">> \o name)
        ELSE IF key \in RowidNames /\ Len(sources) = 1 THEN NoExc
        ELSE IF token.text[1] \notin (SqlQuotes \cup {"["})
                /\ key \in NamesOf("true false") THEN NoExc
        ELSE IF token.text[1] = "\"" THEN NoExc
        ELSE OperationalError(<<"no such column: ">> \o name)

NoSuchTable(text, db) ==
    Raised(OperationalError(<<"no such table: ">> \o Dequote(text)), db)

\* the answer of EXPLAIN QUERY PLAN for a statement that plans nothing
Plan(db) == Ran(4, 0, 0, db)

\* the tables of a FROM clause, each with the name it is shown under
SourceOf(db, tokens, trail, k) ==
    LET key == KeyOf(tokens[k].text)
        alias == IF k + 1 <= Len(trail) /\ trail[k + 1] = "source_alias"
                 THEN Dequote(tokens[k + 1].text)
                 ELSE IF k + 2 <= Len(trail) /\ trail[k + 1] = "source_as"
                 THEN Dequote(tokens[k + 2].text)
                 ELSE TableOf(db, key).name
    IN  [key |-> key, shown |-> alias]

SourcesOf(db, tokens, trail) ==
    LET at == InOrder(AtState(trail, {"source"}))
    IN  [n \in 1..Len(at) |-> SourceOf(db, tokens, trail, at[n])]

\* the error on one item of the result, NoExc when there is none
ItemError(db, tokens, trail, sources, k) ==
    LET twice == {n \in 1..Len(sources) :
                     \E m \in 1..Len(sources) :
                         m # n /\ AsciiLower(sources[m].shown) = AsciiLower(sources[n].shown)}
    IN  IF trail[k] = "star"
        THEN IF twice = {} THEN NoExc
             ELSE OperationalError(<<"ambiguous column name: main.">>
                      \o sources[Least(twice)].shown \o <<".">>
                      \o TableOf(db, sources[Least(twice)].key).columns[1])
        ELSE IF trail[k] = "column" THEN ResolveColumn(tokens[k], sources, db)
        ELSE NoExc

\* the rows of the join of the first n sources, -1 beyond the cap
RECURSIVE RowProduct(_, _, _)
RowProduct(db, sources, n) ==
    IF n = 0 THEN 1
    ELSE LET before == RowProduct(db, sources, n - 1)
             rows == TableOf(db, sources[n].key).nrows
         IN  IF before = -1 \/ (rows # 0 /\ before > RowsCap \div rows) THEN -1
             ELSE before * rows

\* the columns of all sources together
RECURSIVE ColumnsOfSources(_, _, _)
ColumnsOfSources(db, sources, n) ==
    IF n = 0 THEN 0
    ELSE ColumnsOfSources(db, sources, n - 1) + Len(TableOf(db, sources[n].key).columns)

RunSelectRows(db, tokens, trail, eqp, sources) ==
    LET items == AtState(trail, {"star", "term", "column", "string"})
        stars == {k \in items : trail[k] = "star"}
        ncols == Cardinality(items \ stars)
                    + Cardinality(stars) * ColumnsOfSources(db, sources, Len(sources))
        product == RowProduct(db, sources, Len(sources))
        conditions == AtState(trail, {"condition"})
        limits == {LimitOf(tokens[k].text) : k \in AtState(trail, {"limited"})}
        kept == IF \E k \in conditions : TruthOf(tokens[k]) = "false" THEN 0 ELSE product
        rows == IF \E n \in limits : n >= 0 /\ n < kept
                THEN Least(limits \ {-1}) ELSE kept
    IN  IF product = -1 THEN Beyond(db)
        ELSE IF \E k \in conditions : TruthOf(tokens[k]) = "beyond" THEN Beyond(db)
        ELSE IF -2 \in limits THEN Beyond(db)
        ELSE IF eqp THEN Ran(4, IF Len(sources) > 1 THEN Len(sources) ELSE 1, 0, db)
        ELSE Ran(ncols, rows, 0, db)

RunSelectItems(db, tokens, trail, eqp, sources) ==
    LET items == AtState(trail, {"star", "term", "column", "string"})
        refused == {k \in items : ItemError(db, tokens, trail, sources, k) # NoExc}
    IN  IF sources = <<>> /\ \E k \in items : trail[k] = "star"
        THEN Raised(OperationalError(<<"no tables specified">>), db)
        ELSE IF refused # {}
        THEN Raised(ItemError(db, tokens, trail, sources, Least(refused)), db)
        ELSE RunSelectRows(db, tokens, trail, eqp, sources)

RunSelect(db, tokens, trail, eqp) ==
    LET missing == {k \in AtState(trail, {"source"}) :
                       \/ IsReserved(KeyOf(tokens[k].text))
                       \/ KeyOf(tokens[k].text) \notin Keys(db)}
    IN  IF missing = {} THEN RunSelectItems(db, tokens, trail, eqp, SourcesOf(db, tokens, trail))
        ELSE IF IsReserved(KeyOf(tokens[Least(missing)].text)) THEN Beyond(db)
        ELSE NoSuchTable(tokens[Least(missing)].text, db)

RunCreate(db, tokens, trail, eqp) ==
    LET k == Least(AtState(trail, {"created"}))
        at == InOrder(AtState(trail, {"column_name"}))
        name == Dequote(tokens[k].text)
    IN  IF eqp THEN Plan(db)
        ELSE IF IsReserved(AsciiLower(name)) THEN Beyond(db)
        ELSE Ran(0, 0, 0,
                 {t \in db : t.key # AsciiLower(name)}
                     \cup {Table(AsciiLower(name), name,
                                 [n \in 1..Len(at) |-> Dequote(tokens[at[n]].text)], 0)})

RunDrop(db, tokens, trail, eqp) ==
    LET text == tokens[Least(AtState(trail, {"dropped"}))].text
    IN  IF IsReserved(KeyOf(text)) THEN Beyond(db)
        ELSE IF KeyOf(text) \notin Keys(db) THEN NoSuchTable(text, db)
        ELSE IF eqp THEN Plan(db)
        ELSE Ran(0, 0, 0, {t \in db : t.key # KeyOf(text)})

\* INSERT INTO table [(columns)] VALUES (values) on the table it names
RunInsertInto(db, tokens, trail, eqp, table, said) ==
    LET listed == AtState(trail, {"insert_col"})
        columns == {AsciiLower(table.columns[i]) : i \in 1..Len(table.columns)}
        unknown == {j \in listed : KeyOf(tokens[j].text) \notin columns}
        values == AtState(trail, {"value_term", "value_column", "value_string"})
        names == {j \in values :
                     /\ tokens[j].kind \notin {"INTEGER", "FLOAT", "STRING", "BLOB",
                                               "NULL", "VARIABLE"}
                     /\ ResolveColumn(tokens[j], <<>>, db) # NoExc}
    IN  IF unknown # {}
        THEN IF KeyOf(tokens[Least(unknown)].text) \in RowidNames THEN Beyond(db)
             ELSE Raised(OperationalError(
                      <<"table ">> \o said \o <<" has no column named ">>
                          \o Dequote(tokens[Least(unknown)].text)), db)
        ELSE IF names # {}
        THEN Raised(ResolveColumn(tokens[Least(names)], <<>>, db), db)
        ELSE IF listed # {} /\ Cardinality(values) # Cardinality(listed)
        THEN Raised(OperationalError(
                 <<ToString(Cardinality(values)), " values for ",
                   ToString(Cardinality(listed)), " columns">>), db)
        ELSE IF listed = {} /\ Cardinality(values) # Len(table.columns)
        THEN Raised(OperationalError(
                 <<"table ">> \o said \o <<" has ", ToString(Len(table.columns)),
                   " columns but ", ToString(Cardinality(values)),
                   " values were supplied">>), db)
        ELSE IF eqp THEN Plan(db)
        ELSE Ran(0, 0, 1,
                 (db \ {table}) \cup {[table EXCEPT !.nrows = @ + 1]})

RunInsert(db, tokens, trail, eqp) ==
    LET text == tokens[Least(AtState(trail, {"insert_table"}))].text
    IN  IF IsReserved(KeyOf(text)) THEN Beyond(db)
        ELSE IF KeyOf(text) \notin Keys(db) THEN NoSuchTable(text, db)
        ELSE RunInsertInto(db, tokens, trail, eqp, TableOf(db, KeyOf(text)), Dequote(text))

RunDelete(db, tokens, trail, eqp) ==
    LET text == tokens[Least(AtState(trail, {"deleted"}))].text
        table == TableOf(db, KeyOf(text))
    IN  IF IsReserved(KeyOf(text)) THEN Beyond(db)
        ELSE IF KeyOf(text) \notin Keys(db) THEN NoSuchTable(text, db)
        ELSE IF eqp THEN Plan(db)
        ELSE Ran(0, 0, table.nrows, (db \ {table}) \cup {[table EXCEPT !.nrows = 0]})

RunPragma(db, tokens, trail, eqp) ==
    LET name == KeyOf(tokens[Least(AtState(trail, {"pragma_name"}))].text)
        args == AtState(trail, {"pragma_value", "pragma_given"})
        key == KeyOf(tokens[Least(args)].text)
    IN  IF name \notin PragmaNames THEN IF eqp THEN Plan(db) ELSE Ran(0, 0, 0, db)
        ELSE IF name = CharactersOf("table_info")
        THEN IF eqp THEN Plan(db)
             ELSE IF args = {} THEN Ran(6, 0, 0, db)
             ELSE IF IsReserved(key) THEN Beyond(db)
             ELSE Ran(6, IF key \in Keys(db) THEN Len(TableOf(db, key).columns) ELSE 0, 0, db)
        ELSE IF name = CharactersOf("foreign_keys")
        THEN IF eqp THEN Plan(db)
             ELSE IF args = {} THEN Ran(1, 1, 0, db)
             ELSE Ran(0, 0, 0, db)
        ELSE Beyond(db)

\* the statement after it parsed
RunStatement(db, tokens, trail) ==
    LET eqp == trail[1] = "explain"
        body == IF eqp THEN trail[4] ELSE trail[1]
    IN  IF body = "select" THEN RunSelect(db, tokens, trail, eqp)
        ELSE IF body = "create" THEN RunCreate(db, tokens, trail, eqp)
        ELSE IF body = "drop" THEN RunDrop(db, tokens, trail, eqp)
        ELSE IF body = "insert" THEN RunInsert(db, tokens, trail, eqp)
        ELSE IF body = "delete" THEN RunDelete(db, tokens, trail, eqp)
        ELSE RunPragma(db, tokens, trail, eqp)

\* lstrip_sql of CPython's _sqlite: the place of the first character from i
\* on that is no blank and in no comment, 0 when there is none
RECURSIVE LstripSql(_, _)
LstripSql(z, i) ==
    IF i > Len(z) THEN 0
    ELSE IF z[i] \in SqlSpaces THEN LstripSql(z, i + 1)
    ELSE IF z[i] = "-" /\ Ch(z, i + 1) = "-"
    THEN IF StopAt(z, i + 2, "\n") > Len(z) THEN 0
         ELSE LstripSql(z, StopAt(z, i + 2, "\n") + 1)
    ELSE IF z[i] = "/" /\ Ch(z, i + 1) = "*"
    THEN LET closers == {k \in (i + 2)..(Len(z) - 1) : z[k] = "*" /\ z[k + 1] = "/"}
         IN  IF closers = {} THEN 0 ELSE LstripSql(z, Least(closers) + 2)
    ELSE i

\* pysqlite's is_dml: the statement begins with INSERT, UPDATE, DELETE or
\* REPLACE
IsDml(z) ==
    LET i == LstripSql(z, 1)
    IN  /\ i # 0
        /\ \E w \in NamesOf("insert update delete replace") :
               AsciiLower(SubSeq(z, i, i + Len(w) - 1)) = w

\* the statement after it ran: one statement only, and as many values as it
\* has parameters
ExecuteRan(db, z, supplied, read, ran, uses) ==
    IF ran.status # "ok" THEN ran
    ELSE IF LstripSql(z, read.stop) # 0
    THEN Raised(ForeignError("ProgrammingError",
             <<"You can only execute one statement at a time.">>), db)
    ELSE IF uses # supplied THEN Raised(BindingError(uses, supplied), db)
    ELSE Ran(ran.cursor.ncols, ran.cursor.nrows,
             IF IsDml(z) THEN ran.cursor.rowcount ELSE -1, ran.db)

\* the statement after the parser stopped, refusals being what the engine
\* refuses while it parses
ExecuteRefused(db, z, supplied, read, parsed, refusals) ==
    LET tokens == read.tokens
        first == CHOOSE r \in refusals : \A s \in refusals : r.at <= s.at
    IN  IF refusals # {} /\ (first.at < parsed.stop
                               \/ (first.at = parsed.stop /\ parsed.status = "ok"))
        THEN IF first.beyond THEN Beyond(db) ELSE Raised(first.exc, db)
        ELSE IF parsed.status = "beyond" THEN Beyond(db)
        ELSE IF parsed.status = "illegal"
        THEN Raised(OperationalError(
                 <<"unrecognized token: \"">> \o tokens[parsed.stop].text \o <<"\"">>), db)
        ELSE IF parsed.status = "syntax"
        THEN IF parsed.stop > Len(tokens)
             THEN Raised(OperationalError(<<"incomplete input">>), db)
             ELSE Raised(OperationalError(
                      <<"near \"">> \o tokens[parsed.stop].text \o <<"\": syntax error">>), db)
        ELSE IF parsed.trail[1] = "empty"
        THEN IF supplied # 0 THEN Raised(BindingError(0, supplied), db)
             ELSE Ran(0, 0, -1, db)
        ELSE ExecuteRan(db, z, supplied, read, RunStatement(db, tokens, parsed.trail),
                        VariableNumbers(tokens, Len(tokens)).top)

\* the statement after the parser stopped
ExecuteParsed(db, z, supplied, read, parsed) ==
    ExecuteRefused(db, z, supplied, read, parsed,
                   MidParseRefusals(db, read.tokens, parsed.trail))

ExecuteRead(db, z, supplied, read) ==
    ExecuteParsed(db, z, supplied, read, ParseFrom(read.tokens, 1, "start", <<>>))

\* cursor.execute(z, params) with `supplied` parameters on the database
cursor_execute(db, z, supplied) ==
    IF Contains(z, CharOf(0))
    THEN Raised(ForeignError("ProgrammingError",
             <<"the query contains a null character">>), db)
    ELSE ExecuteRead(db, z, supplied, TokensFrom(z, 1, <<>>))

\* ------------------------------------------------------------------------
\* executor.py on the engine: create_connection, execute_query and the loop
\* of execute_multiple_statements; a connection is the database it works on
\* ------------------------------------------------------------------------

\* the statement create_connection configures the connection with
PragmaForeignKeysOn == Characters(<<"PRAGMA foreign_keys = ON">>)

\* execute_query(conn, query, params) with len(params) = supplied: what
\* cursor.execute did, the ExecutionResult built when it succeeded, and the
\* database after it
ResultOfExecute(query0, ran) ==
    [status |-> ran.status, exc |-> ran.exc,
     result |-> IF ran.status = "ok" THEN ResultOfCursor(query0, ran.cursor)
                ELSE NoResult,
     db |-> ran.db]

execute_query(db, query0, supplied) ==
    ResultOfExecute(query0, cursor_execute(db, query0, supplied))

\* the loop taking the statements from the last one backwards
LoopStatementBackwards(stmts, i) == Strip(stmts[Len(stmts) + 1 - i])

\* for i, stmt in enumerate(statements): stmt = stmt.strip()
LoopStatement(stmts, i) == Strip(stmts[i])

\* one turn of the loop of execute_multiple_statements: the statement runs
\* with no parameters, and a SELECT result is remembered as the last one
TurnOf(ran, last_select) ==
    [status |-> ran.status, exc |-> ran.exc, db |-> ran.db,
     last_result |-> ran.result,
     last_select_result |-> IF is_select(ran.result) THEN ran.result
                            ELSE last_select]

LoopTurn(db, stmts, i, last_select) ==
    TurnOf(execute_query(db, LoopStatement(stmts, i), 0), last_select)

\* final_result = last_select_result or last_result
FinalResult(last_select, last) == IF last_select # NoResult THEN last_select ELSE last

\* the loop from its turn i on
RECURSIVE LoopFrom(_, _, _, _)
LoopAfter(stmts, i, turn) ==
    IF turn.status # "ok"
    THEN [status |-> turn.status, exc |-> turn.exc, result |-> NoResult,
          db |-> turn.db]
    ELSE IF i = Len(stmts)
    THEN [status |-> "ok", exc |-> NoExc,
          result |-> FinalResult(turn.last_select_result, turn.last_result),
          db |-> turn.db]
    ELSE LoopFrom(turn.db, stmts, i + 1, turn.last_select_result)

LoopFrom(db, stmts, i, last_select) ==
    LoopAfter(stmts, i, LoopTurn(db, stmts, i, last_select))

\* execute_multiple_statements(conn, sql)
execute_multiple_statements(db, sql) ==
    LET stmts == split_statements(sql)
    IN  IF stmts = <<>>
        THEN [status |-> "ok", exc |-> NoExc, result |-> EmptyResult, db |-> db]
        ELSE LoopFrom(db, stmts, 1, NoResult)

\* ------------------------------------------------------------------------
\* schema.py
\* ------------------------------------------------------------------------

ReservedWords ==
    {<<"s","e","l","e","c","t">>,
     <<"f","r","o","m">>,
     <<"w","h","e","r","e">>,
     <<"a","n","d">>,
     <<"o","r">>,
     <<"n","o","t">>,
     <<"n","u","l","l">>,
     <<"t","r","u","e">>,
     <<"f","a","l","s","e">>,
     <<"i","n","s","e","r","t">>,
     <<"u","p","d","a","t","e">>,
     <<"d","e","l","e","t","e">>,
     <<"c","r","e","a","t","e">>,
     <<"d","r","o","p">>,
     <<"t","a","b","l","e">>,
     <<"i","n","d","e","x">>,
     <<"o","r","d","e","r">>,
     <<"b","y">>,
     <<"g","r","o","u","p">>,
     <<"h","a","v","i","n","g">>,
     <<"j","o","i","n">>,
     <<"l","e","f","t">>,
     <<"r","i","g","h","t">>,
     <<"i","n","n","e","r">>,
     <<"o","u","t","e","r">>,
     <<"o","n">>,
     <<"a","s">>,
     <<"i","n">>,
     <<"b","e","t","w","e","e","n">>,
     <<"l","i","k","e">>,
     <<"i","s">>,
     <<"c","a","s","e">>,
     <<"w","h","e","n">>,
     <<"t","h","e","n">>,
     <<"e","l","s","e">>,
     <<"e","n","d">>,
     <<"d","i","s","t","i","n","c","t">>,
     <<"l","i","m","i","t">>,
     <<"o","f","f","s","e","t">>,
     <<"u","n","i","o","n">>,
     <<"a","l","l">>}

\* re.match(r'^[a-zA-Z_][a-zA-Z0-9_]*$', name); $ also matches before a
\* newline that ends the name
IsUnquotedIdentifier(name) ==
    LET body == IF name # <<>> /\ name[Len(name)] = "\n"
                THEN SubSeq(name, 1, Len(name) - 1) ELSE name
    IN  /\ body # <<>>
        /\ IsAsciiAlpha(body[1]) \/ body[1] = "_"
        /\ \A i \in 1..Len(body) : IsAsciiWordChar(body[i])

\* str.replace('"', '""')
RECURSIVE DoubleQuotes(_)
DoubleQuotes(s) ==
    IF s = <<>> THEN <<>>
    ELSE (IF Head(s) = "\"" THEN <<"\"", "\"">> ELSE <<Head(s)>>) \o DoubleQuotes(Tail(s))

sanitize_column_name(name) ==
    IF IsUnquotedIdentifier(name) /\ Lower(name) \notin ReservedWords
    THEN name
    ELSE <<"\"">> \o DoubleQuotes(name) \o <<"\"">>

\* validate_headers: a header cell is a text or None; the result is the
\* validated list or the exception raised
\* ValidateHeadersFrom with the headers compared as spelled
RECURSIVE ValidateHeadersFromAsSpelled(_, _, _, _)
ValidateHeadersFromAsSpelled(headers, i, seen, validated) ==
    IF i > Len(headers) THEN [exc |-> NoExc, validated |-> validated]
    ELSE LET header == headers[i]
             header_str == Strip(header)
         IN  IF header = None \/ header_str = <<>>
             THEN [exc |-> EmptyColumnNameError(i), validated |-> <<>>]
             ELSE IF header_str \in seen
             THEN [exc |-> DuplicateColumnError(header_str), validated |-> <<>>]
             ELSE ValidateHeadersFromAsSpelled(headers, i + 1, seen \cup {header_str},
                                              Append(validated, header_str))

RECURSIVE ValidateHeadersFrom(_, _, _, _)
ValidateHeadersFrom(headers, i, seen, validated) ==
    IF i > Len(headers) THEN [exc |-> NoExc, validated |-> validated]
    ELSE LET header == headers[i]
             header_str == Strip(header)
         IN  IF header = None \/ header_str = <<>>
             THEN [exc |-> EmptyColumnNameError(i), validated |-> <<>>]
             ELSE IF Lower(header_str) \in seen
             THEN [exc |-> DuplicateColumnError(header_str), validated |-> <<>>]
             ELSE ValidateHeadersFrom(headers, i + 1, seen \cup {Lower(header_str)},
                                      Append(validated, header_str))

validate_headers(headers) == ValidateHeadersFrom(headers, 1, {}, <<>>)

ColumnSchema(name, sqlite_name, sqlite_type) ==
    [name |-> name, sqlite_name |-> sqlite_name, sqlite_type |-> sqlite_type]

NoSchema == [name |-> <<>>, sqlite_name |-> <<>>, columns |-> <<>>, row_count |-> 0]

\* a cell of a column, by the kind of value it holds: None, a bool, an int,
\* a float with no fractional part (1.0), a float with one (1.5), a
\* Timestamp, a str
CellKinds == {"null", "bool", "int", "whole", "frac", "datetime", "text"}

\* series.dropna()
RECURSIVE DropNa(_)
DropNa(cells) ==
    IF cells = <<>> THEN <<>>
    ELSE IF cells[1] = "null" THEN DropNa(Tail(cells))
    ELSE <<cells[1]>> \o DropNa(Tail(cells))

\* the dtype pandas gives a column built from these cells: bool only when
\* every cell is a bool, a number type when every cell that is not None is
\* a number (None is held as NaN), datetime64 when every cell that is not
\* None is a Timestamp (None is held as NaT), object for everything else
SeriesDtype(cells) ==
    LET kinds == {cells[k] : k \in 1..Len(cells)}
        present == kinds \ {"null"}
    IN  IF present = {} THEN "object"
        ELSE IF kinds = {"bool"} THEN "bool"
        ELSE IF present \subseteq {"int", "whole", "frac"}
        THEN IF kinds = {"int"} THEN "int64" ELSE "float64"
        ELSE IF present = {"datetime"} THEN "datetime64"
        ELSE "object"

\* infer_column_type(series); dropna() keeps the dtype of the series
infer_column_type(cells) ==
    LET non_null == DropNa(cells)
        dtype == SeriesDtype(cells)
    IN  IF Len(non_null) = 0 THEN "TEXT"
        ELSE IF dtype = "bool" THEN "INTEGER"
        ELSE IF dtype = "datetime64" THEN "TEXT"
        ELSE IF dtype \in {"int64", "float64"}
        THEN IF \A k \in 1..Len(non_null) : non_null[k] # "frac"
             THEN "INTEGER" ELSE "REAL"
        ELSE "TEXT"

\* a DataFrame is [columns, types, nrows]: the header cells, the type
\* infer_column_type gives each column, and len(df)
NoFrame == [columns |-> <<>>, types |-> <<>>, nrows |-> 0]

\* build_table_schema: the schema or the exception raised; types[col_name]
\* raises KeyError when the validated header is no label of the frame
build_table_schema(df0, table_name) ==
    LET v == validate_headers(df0.columns)
        labelOf(col_name) == {k \in 1..Len(df0.columns) : df0.columns[k] = col_name}
        missing == {i \in 1..Len(v.validated) : labelOf(v.validated[i]) = {}}
    IN  IF v.exc # NoExc THEN [exc |-> v.exc, schema |-> NoSchema]
        ELSE IF missing # {}
        THEN LET i == CHOOSE i \in missing : \A j \in missing : i <= j
             IN  [exc |-> ForeignError("KeyError", Repr(v.validated[i])),
                  schema |-> NoSchema]
        ELSE [exc |-> NoExc,
              schema |->
                [name |-> table_name,
                 sqlite_name |-> sanitize_column_name(table_name),
                 columns |->
                    [i \in 1..Len(v.validated) |->
                        ColumnSchema(v.validated[i],
                                     sanitize_column_name(v.validated[i]),
                                     df0.types[CHOOSE k \in labelOf(v.validated[i]) : TRUE])],
                 row_count |-> df0.nrows]]

\* sep.join(texts)
RECURSIVE Join(_, _)
Join(sep, texts) ==
    IF texts = <<>> THEN <<>>
    ELSE IF Len(texts) = 1 THEN texts[1]
    ELSE texts[1] \o sep \o Join(sep, Tail(texts))

\* create_table_ddl(table_name, columns); every ColumnSchema is nullable
create_table_ddl(table_name, columns) ==
    LET col_defs == [i \in 1..Len(columns) |->
                        Characters(<<"    ">>) \o columns[i].sqlite_name \o <<" ">>
                            \o Characters(<<columns[i].sqlite_type>>)]
        cols_sql == Join(<<",", "\n">>, col_defs)
    IN  Characters(<<"CREATE TABLE ">>) \o table_name \o <<" ", "(", "\n">>
            \o cols_sql \o <<"\n", ")">>

\* the INSERT statement load_data_to_sqlite gives to executemany
insert_sql(schema0) ==
    LET placeholders == Join(<<",", " ">>, [i \in 1..Len(schema0.columns) |-> <<"?">>])
        col_names == Join(<<",", " ">>,
                          [i \in 1..Len(schema0.columns) |-> schema0.columns[i].sqlite_name])
    IN  Characters(<<"INSERT INTO ">>) \o schema0.sqlite_name \o <<" ", "(">>
            \o col_names \o Characters(<<") VALUES (">>) \o placeholders \o <<")">>

\* what sqlite3 raises for a value of a type it cannot bind: the cells of a
\* frame whose columns are all int64 reach executemany as numpy.int64
UnsupportedTypeError ==
    ForeignError("ProgrammingError",
        <<"Error binding parameter 1: type 'numpy.int64' is not supported">>)

\* load_data_to_sqlite(conn, schema, df): every outcome it can have, as the
\* exception raised (NoExc when none) and the database it leaves.  The
\* table is created, then executemany runs the INSERT once for each row of
\* the frame; a frame keeps the types of its columns, not the dtypes, so a
\* frame whose columns are all INTEGER is loaded or, its cells being
\* numpy.int64, refused at its first row
LoadRows(schema0, frame, before, inserted) ==
    IF inserted.status = "beyond" THEN {}
    ELSE IF inserted.status = "error" THEN {[exc |-> inserted.exc, db |-> before]}
    ELSE {[exc |-> NoExc,
           db |-> {IF t \in before THEN t
                   ELSE [t EXCEPT !.nrows = @ + frame.nrows - 1] : t \in inserted.db}]}
         \cup (IF \A i \in 1..Len(schema0.columns) :
                      schema0.columns[i].sqlite_type = "INTEGER"
                THEN {[exc |-> UnsupportedTypeError, db |-> before]}
                ELSE {})

LoadCreated(db, schema0, frame, created) ==
    IF created.status = "beyond" THEN {}
    ELSE IF created.status = "error" THEN {[exc |-> created.exc, db |-> db]}
    ELSE IF frame.nrows = 0 THEN {[exc |-> NoExc, db |-> created.db]}
    ELSE LoadRows(schema0, frame, created.db,
                  cursor_execute(created.db, insert_sql(schema0), Len(schema0.columns)))

load_data_to_sqlite(db, schema0, frame) ==
    LoadCreated(db, schema0, frame,
                cursor_execute(db, create_table_ddl(schema0.sqlite_name,
                                                    schema0.columns), 0))

\* the string resolve_reference passes to xl()
ExcelRef(ref) ==
    IF ref.table_name # None
    THEN IF Truthy(ref.sheet_name)
         THEN ref.sheet_name \o <<".">> \o ref.table_name
         ELSE ref.table_name
    ELSE IF Truthy(ref.sheet_name)
         THEN ref.sheet_name \o <<"!">> \o ref.range_ref
         ELSE ref.range_ref

\* resolve_reference testing the columns of the frame before its rows
resolve_reference_columns_first(ref, host, df0) ==
    IF host = "import_error"
    THEN RangeResolutionError(ref.original,
             <<"xl() function not available - must run in Python in Excel environment">>)
    ELSE IF host = "raises"
    THEN RangeResolutionError(ref.original,
             <<"failed to resolve Excel reference: ", "host error">>)
    ELSE IF host = "none"
    THEN RangeResolutionError(ref.original,
             <<"xl() returned None - reference may not exist">>)
    ELSE IF host = "not_dataframe"
    THEN RangeResolutionError(ref.original,
             <<"xl() returned unexpected type: ", "list", " (expected DataFrame)">>)
    ELSE IF Len(df0.columns) = 0
    THEN RangeResolutionError(ref.original, <<"range contains no columns">>)
    ELSE IF df0.nrows = 0 THEN EmptyRangeError(ref.original)
    ELSE NoExc

\* resolve_reference on what the host did: xl cannot be imported
\* ("import_error"), xl() raises ("raises"), or xl() returns None ("none"),
\* something that is no DataFrame ("not_dataframe") or a DataFrame
resolve_reference(ref, host, df0) ==
    IF host = "import_error"
    THEN RangeResolutionError(ref.original,
             <<"xl() function not available - must run in Python in Excel environment">>)
    ELSE IF host = "raises"
    THEN RangeResolutionError(ref.original,
             <<"failed to resolve Excel reference: ", "host error">>)
    ELSE IF host = "none"
    THEN RangeResolutionError(ref.original,
             <<"xl() returned None - reference may not exist">>)
    ELSE IF host = "not_dataframe"
    THEN RangeResolutionError(ref.original,
             <<"xl() returned unexpected type: ", "list", " (expected DataFrame)">>)
    ELSE IF df0.nrows = 0 THEN EmptyRangeError(ref.original)
    ELSE IF Len(df0.columns) = 0
    THEN RangeResolutionError(ref.original, <<"range contains no columns">>)
    ELSE NoExc

\* ------------------------------------------------------------------------
\* output.py: check_output_limits, format_result
\* ------------------------------------------------------------------------

EXCEL_MAX_ROWS == 1048576

EXCEL_MAX_COLS == 16384

RECOMMENDED_MAX_ROWS == 100000

\* f"{n:,}": the decimal digits in groups of three
RECURSIVE Commas(_)
Commas(n) ==
    IF n < 1000 THEN <<ToString(n)>>
    ELSE LET r == n % 1000
         IN  Commas(n \div 1000) \o
             <<",", ToString(r \div 100), ToString((r \div 10) % 10), ToString(r % 10)>>

check_output_limits(result0) ==
    LET row_count == result0.nrows
        col_count == result0.ncols
    IN  IF row_count > EXCEL_MAX_ROWS
        THEN <<"Result has ">> \o Commas(row_count) \o
             <<" rows, ", "exceeding", " Excel's limit of ">> \o Commas(EXCEL_MAX_ROWS) \o
             <<". Use LIMIT clause to reduce output.">>
        ELSE IF col_count > EXCEL_MAX_COLS
        THEN <<"Result has ">> \o Commas(col_count) \o
             <<" columns, ", "exceeding", " Excel's limit of ">> \o Commas(EXCEL_MAX_COLS) \o
             <<".">>
        ELSE IF row_count > RECOMMENDED_MAX_ROWS
        THEN <<"Warning: Result has ">> \o Commas(row_count) \o
             <<" rows. Large outputs may impact Excel performance. ",
               "Consider using LIMIT clause.">>
        ELSE None

\* what SQLITE gives back: a table (its columns, its rows, and the text of
\* its one cell when it is a message) or a string
Returned(kind, text, ncols, nrows) ==
    [kind |-> kind, text |-> text, ncols |-> ncols, nrows |-> nrows]

NoReturn == Returned("none", <<>>, 0, 0)

format_result(result0) ==
    IF result0.ncols = 0 \/ result0.nrows = 0
    THEN IF result0.query_type \in {"INSERT", "UPDATE", "DELETE"}
         THEN Returned("table", <<ToString(result0.rowcount), " rows affected">>, 1, 1)
         ELSE IF result0.query_type \in {"CREATE", "DROP"}
         THEN Returned("table", <<"OK">>, 1, 1)
         ELSE Returned("table", <<>>, 0, 0)
    ELSE Returned("table", <<>>, result0.ncols, result0.nrows)

\* ------------------------------------------------------------------------
\* main.py: the inputs of one invocation and what the host and the engine
\* can answer
\* ------------------------------------------------------------------------

MaxFrags == 3

MaxParams == 2

\* every concatenation of at most n of the fragments
RECURSIVE FragSeqs(_, _)
FragSeqs(frags, n) ==
    IF n = 0 THEN {<<>>}
    ELSE LET shorter == FragSeqs(frags, n - 1)
         IN  shorter \cup {f \o t : f \in frags, t \in shorter}

\* the fragments of the queries of a call: the head of a SELECT, alone and
\* with a star, a placeholder bare and in a literal, a semicolon bare and in
\* a literal, references to the host's tables t, T and u, a statement that
\* creates a table and one that drops one, and two kinds of blank
PipelineFragments ==
    {<<"S","E","L","E","C","T"," ">>, <<" ","S","E","L","E","C","T"," ","*"," ">>, <<"?">>, <<"'","?","'">>, <<";">>, <<"'",";","'">>, <<"F","R","O","M"," ","t"," ">>, <<"J","O","I","N"," ","T">>, <<"J","O","I","N"," ","u">>, <<"C","R","E","A","T","E"," ","T","A","B","L","E"," ","w","(","a",")">>, <<";","D","R","O","P"," ","T","A","B","L","E"," ","t">>, <<" ">>, <<NoBreakSpace>>}

Headers_id == <<<<"i","d">>>>

\* the rows of a host table whose join with itself passes the limit of rows
ManyRows == 1025

\* the rows of a host table whose join with itself passes the recommended
\* number of rows only
LargeRows == 317

HostFrames ==
    {[columns |-> Headers_id, types |-> <<"INTEGER">>, nrows |-> 1],
     [columns |-> Headers_id, types |-> <<"TEXT">>, nrows |-> ManyRows],
     [columns |-> Headers_id, types |-> <<"TEXT">>, nrows |-> LargeRows],
     [columns |-> <<<<"a">>, <<"A">>>>, types |-> <<"TEXT", "TEXT">>, nrows |-> 1],
     [columns |-> <<<<"a">>, <<" ">>>>, types |-> <<"TEXT", "TEXT">>, nrows |-> 1],
     [columns |-> <<<<" ","a">>>>, types |-> <<"REAL">>, nrows |-> 1],
     [columns |-> Headers_id, types |-> <<"INTEGER">>, nrows |-> 0],
     [columns |-> <<>>, types |-> <<>>, nrows |-> 1]}

HostOutcomes == {"import_error", "raises", "none", "not_dataframe", "dataframe"}

\* ------------------------------------------------------------------------
\* main.py: SQLITE and _execute_sqlite
\* ------------------------------------------------------------------------

VARIABLES query, nparams, pc, references, idx, df, schema, conn, opened, tables,
          ref_mapping, rewritten_query, statements, stmt_idx, last_select_result,
          last_result, result, exc, ret, resolver_calls, input, output,
          calls, engine

vars == <<query, nparams, pc, references, idx, df, schema, conn, opened, tables,
          ref_mapping, rewritten_query, statements, stmt_idx, last_select_result,
          last_result, result, exc, ret, resolver_calls, input, output,
          calls, engine>>

\* everything but the inputs, as it is when a call begins
Fresh ==
    /\ references = <<>>
    /\ idx = 0
    /\ df = NoFrame
    /\ schema = NoSchema
    /\ conn = "none"
    /\ opened = 0
    /\ tables = {}
    /\ ref_mapping = <<>>
    /\ rewritten_query = <<>>
    /\ statements = <<>>
    /\ stmt_idx = 0
    /\ last_select_result = NoResult
    /\ last_result = NoResult
    /\ result = NoResult
    /\ exc = NoExc
    /\ ret = NoReturn
    /\ resolver_calls = <<>>

\* input and output hold the argument and the result of a function of the
\* package applied on its own; a call of SQLITE leaves them alone
NoFunction ==
    /\ input = <<>>
    /\ output = <<>>

\* calls and engine hold several invocations at once and the databases they
\* opened; one call of SQLITE followed on its own leaves them alone
NoCalls ==
    /\ calls = <<>>
    /\ engine = <<>>

Init ==
    /\ query \in FragSeqs(PipelineFragments, MaxFrags)
    /\ nparams \in 0..MaxParams
    /\ pc = "validate"
    /\ Fresh
    /\ NoFunction
    /\ NoCalls

\* the two checks at the head of _execute_sqlite, parameters looked at first
ValidateInputsParamsFirst(q, n) ==
    IF n # 0 /\ n # count_parameters(q)
    THEN QuerySyntaxErrorDetails(<<"expected ", ToString(count_parameters(q)),
                                   " parameters, got ", ToString(n)>>)
    ELSE IF ~Truthy(q) \/ Strip(q) = <<>>
    THEN QuerySyntaxErrorDetails(<<"empty query">>)
    ELSE NoExc

\* the two checks at the head of _execute_sqlite: the exception raised, or
\* NoExc
ValidateInputs(q, n) ==
    IF ~Truthy(q) \/ Strip(q) = <<>>
    THEN QuerySyntaxErrorDetails(<<"empty query">>)
    ELSE IF n # 0 /\ n # count_parameters(q)
    THEN QuerySyntaxErrorDetails(<<"expected ", ToString(count_parameters(q)),
                                   " parameters, got ", ToString(n)>>)
    ELSE NoExc

\* an exception leaves _execute_sqlite before its try block: the handlers of
\* SQLITE are next
RaiseOutsideTry(e) ==
    /\ exc' = e
    /\ pc' = "handler"

\* an exception inside the try block that is swallowed: the statements after
\* the loop are next
RaiseInsideTrySwallowed(e) ==
    /\ exc' = e
    /\ pc' = "rewrite"

\* an exception inside the try block: the finally clause is next
RaiseInsideTry(e) ==
    /\ exc' = e
    /\ pc' = "finally"

Validate ==
    /\ pc = "validate"
    /\ UNCHANGED <<input, output, calls, engine>>
    /\ LET e == ValidateInputs(query, nparams)
       IN  IF e # NoExc THEN RaiseOutsideTry(e)
           ELSE pc' = "extract" /\ exc' = exc
    /\ UNCHANGED <<query, nparams, references, idx, df, schema, conn, opened, tables,
                   ref_mapping, rewritten_query, statements, stmt_idx,
                   last_select_result, last_result, result, ret, resolver_calls>>

Extract ==
    /\ pc = "extract"
    /\ UNCHANGED <<input, output, calls, engine>>
    /\ references' = extract_table_references(query)
    /\ pc' = "connect"
    /\ UNCHANGED <<query, nparams, idx, df, schema, conn, opened, tables,
                   ref_mapping, rewritten_query, statements, stmt_idx,
                   last_select_result, last_result, result, exc, ret, resolver_calls>>

\* create_connection: sqlite3.connect gives the call a database with no
\* table in it, then the PRAGMA runs on the new connection; either can fail
\* for want of memory
Connect ==
    /\ pc = "connect"
    /\ UNCHANGED <<input, output, calls, engine>>
    /\ \/ /\ conn' = "open"
          /\ opened' = opened + 1
          /\ \E configured \in {cursor_execute({}, PragmaForeignKeysOn, 0)} :
                configured.status = "ok" /\ tables' = configured.db
          /\ idx' = 1
          /\ pc' = IF references = <<>> THEN "rewrite" ELSE "resolve"
          /\ exc' = exc
       \/ /\ RaiseOutsideTry(ForeignError("OperationalError",
                                          <<"unable to open database file">>))
          /\ UNCHANGED <<conn, opened, idx, tables>>
       \/ /\ conn' = "open"
          /\ opened' = opened + 1
          /\ RaiseOutsideTry(ForeignError("OperationalError", <<"out of memory">>))
          /\ UNCHANGED <<idx, tables>>
    /\ UNCHANGED <<query, nparams, references, df, schema,
                   ref_mapping, rewritten_query, statements, stmt_idx,
                   last_select_result, last_result, result, ret, resolver_calls>>

\* df = resolve_reference(ref)
Resolve ==
    /\ pc = "resolve"
    /\ UNCHANGED <<input, output, calls, engine>>
    /\ \E host \in HostOutcomes, frame \in HostFrames :
          LET ref == references[idx]
              e == resolve_reference(ref, host, frame)
          IN  /\ host # "dataframe" => frame = CHOOSE f \in HostFrames : TRUE
              /\ resolver_calls' = IF host = "import_error" THEN resolver_calls
                                   ELSE Append(resolver_calls, ExcelRef(ref))
              /\ IF e # NoExc
                 THEN RaiseInsideTry(e) /\ df' = df
                 ELSE df' = frame /\ pc' = "build" /\ exc' = exc
    /\ UNCHANGED <<query, nparams, references, idx, schema, conn, opened, tables,
                   ref_mapping, rewritten_query, statements, stmt_idx,
                   last_select_result, last_result, result, ret>>

\* schema = build_table_schema(df, ref.sqlite_name)
Build ==
    /\ pc = "build"
    /\ UNCHANGED <<input, output, calls, engine>>
    /\ LET b == build_table_schema(df, references[idx].sqlite_name)
       IN  IF b.exc # NoExc
           THEN RaiseInsideTry(b.exc) /\ schema' = schema
           ELSE schema' = b.schema /\ pc' = "load" /\ exc' = exc
    /\ UNCHANGED <<query, nparams, references, idx, df, conn, opened, tables,
                   ref_mapping, rewritten_query, statements, stmt_idx,
                   last_select_result, last_result, result, ret, resolver_calls>>

\* load_data_to_sqlite(conn, schema, df), then the mapping's entry and the
\* loop's step
Load ==
    /\ pc = "load"
    /\ UNCHANGED <<input, output, calls, engine>>
    /\ \E loaded \in load_data_to_sqlite(tables, schema, df) :
          /\ tables' = loaded.db
          /\ IF loaded.exc # NoExc
             THEN /\ RaiseInsideTry(loaded.exc)
                  /\ UNCHANGED <<ref_mapping, idx>>
             ELSE /\ ref_mapping' = Append(ref_mapping,
                         [original |-> references[idx].original,
                          sqlite_name |-> references[idx].sqlite_name])
                  /\ idx' = idx + 1
                  /\ pc' = IF idx < Len(references) THEN "resolve" ELSE "rewrite"
                  /\ exc' = exc
    /\ UNCHANGED <<query, nparams, references, df, schema, conn, opened,
                   rewritten_query, statements, stmt_idx,
                   last_select_result, last_result, result, ret, resolver_calls>>

\* the names of the mapping are those _generate_sqlite_name made, which hold
\* no backslash: the re.sub of substitute_references raises nothing
Rewrite ==
    /\ pc = "rewrite"
    /\ UNCHANGED <<input, output, calls, engine>>
    /\ rewritten_query' = substitute_references(query, ref_mapping)
    /\ pc' = "execute"
    /\ UNCHANGED <<query, nparams, references, idx, df, schema, conn, opened, tables,
                   ref_mapping, statements, stmt_idx,
                   last_select_result, last_result, result, exc, ret, resolver_calls>>

\* execute_query(conn, rewritten_query, params), the branch without ";"
ExecuteSingle ==
    /\ pc = "execute"
    /\ UNCHANGED <<input, output, calls, engine>>
    /\ ~Contains(query, ";")
    /\ \E ran \in {execute_query(tables, rewritten_query, nparams)} :
          /\ ran.status # "beyond"
          /\ tables' = ran.db
          /\ IF ran.status = "error"
             THEN RaiseInsideTry(ran.exc) /\ result' = result
             ELSE result' = ran.result /\ pc' = "limits" /\ exc' = exc
    /\ UNCHANGED <<query, nparams, references, idx, df, schema, conn, opened,
                   ref_mapping, rewritten_query, statements, stmt_idx,
                   last_select_result, last_result, ret, resolver_calls>>

\* execute_multiple_statements(conn, rewritten_query) up to its loop
ExecuteMultiple ==
    /\ pc = "execute"
    /\ UNCHANGED <<input, output, calls, engine>>
    /\ Contains(query, ";")
    /\ statements' = split_statements(rewritten_query)
    /\ stmt_idx' = 1
    /\ IF statements' = <<>>
       THEN result' = EmptyResult /\ pc' = "limits"
       ELSE result' = result /\ pc' = "statement"
    /\ UNCHANGED <<query, nparams, references, idx, df, schema, conn, opened, tables,
                   ref_mapping, rewritten_query,
                   last_select_result, last_result, exc, ret, resolver_calls>>

\* one turn of the loop of execute_multiple_statements; after the last one
\* the final result is chosen
Statement ==
    /\ pc = "statement"
    /\ UNCHANGED <<input, output, calls, engine>>
    /\ \E turn \in {LoopTurn(tables, statements, stmt_idx, last_select_result)} :
          /\ turn.status # "beyond"
          /\ tables' = turn.db
          /\ IF turn.status = "error"
             THEN /\ RaiseInsideTry(turn.exc)
                  /\ UNCHANGED <<stmt_idx, last_select_result, last_result, result>>
             ELSE /\ last_result' = turn.last_result
                  /\ last_select_result' = turn.last_select_result
                  /\ IF stmt_idx < Len(statements)
                     THEN result' = result /\ pc' = "statement"
                     ELSE /\ result' = FinalResult(turn.last_select_result,
                                                   turn.last_result)
                          /\ pc' = "limits"
                  /\ stmt_idx' = stmt_idx + 1
                  /\ exc' = exc
    /\ UNCHANGED <<query, nparams, references, idx, df, schema, conn, opened,
                   ref_mapping, rewritten_query, statements, ret, resolver_calls>>

\* warning = check_output_limits(result) and the raise on a hard limit
CheckLimits ==
    /\ pc = "limits"
    /\ UNCHANGED <<input, output, calls, engine>>
    /\ LET warning == check_output_limits(result)
       IN  IF warning # None /\ HasPiece(warning, "exceeding")
           THEN RaiseInsideTry(SQLiteExcelError("SQLiteExcelError", warning))
           ELSE pc' = "format" /\ exc' = exc
    /\ UNCHANGED <<query, nparams, references, idx, df, schema, conn, opened, tables,
                   ref_mapping, rewritten_query, statements, stmt_idx,
                   last_select_result, last_result, result, ret, resolver_calls>>

\* return format_result(result)
Format ==
    /\ pc = "format"
    /\ UNCHANGED <<input, output, calls, engine>>
    /\ \/ /\ ret' = format_result(result)
          /\ pc' = "finally"
          /\ exc' = exc
       \/ /\ RaiseInsideTry(ForeignError("ValueError", <<"cannot convert value">>))
          /\ ret' = ret
    /\ UNCHANGED <<query, nparams, references, idx, df, schema, conn, opened, tables,
                   ref_mapping, rewritten_query, statements, stmt_idx,
                   last_select_result, last_result, result, resolver_calls>>

\* finally: conn.close()
Finally ==
    /\ pc = "finally"
    /\ UNCHANGED <<input, output, calls, engine>>
    /\ conn' = "closed"
    /\ pc' = IF exc = NoExc THEN "done" ELSE "handler"
    /\ UNCHANGED <<query, nparams, references, idx, df, schema, opened, tables,
                   ref_mapping, rewritten_query, statements, stmt_idx,
                   last_select_result, last_result, result, exc, ret, resolver_calls>>

\* what the except clauses of SQLITE return for an exception
ErrorString(e) ==
    Returned("str",
             IF IsSQLiteExcelError(e) THEN e.text ELSE format_error_for_excel(e),
             0, 0)

\* the except clauses of SQLITE
Handler ==
    /\ pc = "handler"
    /\ UNCHANGED <<input, output, calls, engine>>
    /\ ret' = ErrorString(exc)
    /\ pc' = "done"
    /\ UNCHANGED <<query, nparams, references, idx, df, schema, conn, opened, tables,
                   ref_mapping, rewritten_query, statements, stmt_idx,
                   last_select_result, last_result, result, exc, resolver_calls>>

Next ==
    \/ Validate
    \/ Extract
    \/ Connect
    \/ Resolve
    \/ Build
    \/ Load
    \/ Rewrite
    \/ ExecuteSingle
    \/ ExecuteMultiple
    \/ Statement
    \/ CheckLimits
    \/ Format
    \/ Finally
    \/ Handler

Spec == Init /\ [][Next]_vars

\* ------------------------------------------------------------------------
\* parser.py applied on its own: extraction, then rewriting under the
\* mapping of everything extracted
\* ------------------------------------------------------------------------

MaxAnchorFrags == 4

MaxLexerFrags == 5

MaxCteFrags == 3

MaxRewriteFrags == 3

AnchorFragments ==
    {<<"F","R","O","M"," ">>,
     <<"J","O","I","N"," ">>,
     <<"U","P","D","A","T","E"," ">>,
     <<"I","N","S","E","R","T"," ","I","N","T","O"," ">>,
     <<"a"," ">>,
     <<"A"," ">>,
     <<"b"," ">>,
     <<"F","R","O","M",NoBreakSpace>>,
     <<"é">>}

LexerFragments ==
    {<<"'">>,
     <<"'","'">>,
     <<".">>,
     <<"F","R","O","M"," ","y">>,
     <<"/","*">>,
     <<"*","/">>,
     <<"-","-">>,
     <<"\n">>}

CteFragments ==
    {<<"W","I","T","H"," ","c"," ","A","S"," ","(","S","E","L","E","C","T"," ","1",")"," ">>,
     <<"W","I","T","H"," ","R","E","C","U","R","S","I","V","E"," ","c","(","x",")"," ","A","S"," ","(","S","E","L","E","C","T"," ","1",")"," ">>,
     <<"S","E","L","E","C","T"," ","*"," ">>,
     <<"F","R","O","M"," ","c">>,
     <<"F","R","O","M"," ","t">>,
     <<" ">>}

RewriteFragments ==
    {<<"F","R","O","M"," ">>,
     <<"A"," ">>,
     <<"'","A","'">>,
     <<"$","A","$","1",":","$","B","$","2">>,
     <<"\"","a","\"">>,
     <<"S","!","A","1",":","B","2"," ">>,
     <<"S",".","T"," ">>}

InitParser ==
    /\ query \in FragSeqs(AnchorFragments, MaxAnchorFrags) \cup
                 FragSeqs(LexerFragments, MaxLexerFrags) \cup
                 FragSeqs(CteFragments, MaxCteFrags) \cup
                 FragSeqs(RewriteFragments, MaxRewriteFrags)
    /\ nparams = 0
    /\ pc = "apply_extract"
    /\ Fresh
    /\ NoFunction
    /\ NoCalls

\* references = extract_table_references(query)
ApplyExtract ==
    /\ pc = "apply_extract"
    /\ UNCHANGED <<input, output, calls, engine>>
    /\ references' = extract_table_references(query)
    /\ pc' = "apply_substitute"
    /\ UNCHANGED <<query, nparams, idx, df, schema, conn, opened, tables,
                   ref_mapping, rewritten_query, statements, stmt_idx,
                   last_select_result, last_result, result, exc, ret, resolver_calls>>

\* ref_mapping[ref.original] = ref.sqlite_name for every reference, then
\* substitute_references(query, ref_mapping)
ApplySubstitute ==
    /\ pc = "apply_substitute"
    /\ UNCHANGED <<input, output, calls, engine>>
    /\ ref_mapping' = [k \in 1..Len(references) |->
                          [original |-> references[k].original,
                           sqlite_name |-> references[k].sqlite_name]]
    /\ rewritten_query' = substitute_references(query, ref_mapping')
    /\ pc' = "applied"
    /\ UNCHANGED <<query, nparams, references, idx, df, schema, conn, opened, tables,
                   statements, stmt_idx,
                   last_select_result, last_result, result, exc, ret, resolver_calls>>

NextParser ==
    \/ ApplyExtract
    \/ ApplySubstitute

SpecParser == InitParser /\ [][NextParser]_vars

\* ------------------------------------------------------------------------
\* SQLITE("SELECT * FROM <ref>") for each form of reference
\* ------------------------------------------------------------------------

SelectAllFrom == <<"S","E","L","E","C","T"," ","*"," ","F","R","O","M"," ">>

ReferenceForms ==
    {<<"t">>,
     <<"S",".","T">>,
     <<"A","1",":","B","2">>,
     <<"$","A","$","1",":","$","B","$","2">>,
     <<"S","!","A","1",":","B","2">>,
     <<"'","M","y"," ","S","'",".","T">>,
     <<"\"","a","\"">>,
     <<"O","r","d","e","r">>}

SelectAllQueries == {SelectAllFrom \o ref : ref \in ReferenceForms}

InitSelectAll ==
    /\ query \in SelectAllQueries
    /\ nparams = 0
    /\ pc = "validate"
    /\ Fresh
    /\ NoFunction
    /\ NoCalls

NextSelectAll ==
    \/ Validate
    \/ Extract
    \/ Connect
    \/ Resolve
    \/ Build
    \/ Load
    \/ Rewrite
    \/ ExecuteSingle
    \/ CheckLimits
    \/ Format
    \/ Finally
    \/ Handler

SpecSelectAll == InitSelectAll /\ [][NextSelectAll]_vars

\* ------------------------------------------------------------------------
\* The functions of the package applied on their own: pc names the function,
\* input holds its argument, output its result
\* ------------------------------------------------------------------------

MaxRefFrags == 3

ReferenceFragments ==
    {<<"a">>,
     <<"B">>,
     <<"1">>,
     <<"_">>,
     <<"$">>,
     <<".">>,
     <<"!">>,
     <<":">>,
     <<"'">>,
     <<"'","a"," ","b","'">>,
     <<"\"">>,
     <<" ">>,
     <<"A","1",":","B","2">>,
     <<KelvinSign>>,
     <<"U+0663">>}

\* the fragments of the texts written after an anchor: names, the marks of
\* the token grammar, a quoted sheet name, a range and a letter beyond ASCII
AnchoredFragments ==
    ReferenceFragments \ {<<"B">>, <<"$">>, <<":">>, <<"U+0663">>}

MaxStmtFrags == 3

\* statements for execute_multiple_statements: of every kind of result, on
\* a table that one of them creates, a semicolon and a blank
StatementFragments ==
    {<<"S","E","L","E","C","T"," ","1">>,
     <<"P","R","A","G","M","A"," ","x">>,
     <<"E","X","P","L","A","I","N"," ","Q","U","E","R","Y"," ","P","L","A","N"," ","S","E","L","E","C","T"," ","1">>,
     <<"C","R","E","A","T","E"," ","T","A","B","L","E"," ","w","(","a",")">>,
     <<"I","N","S","E","R","T"," ","I","N","T","O"," ","w"," ","V","A","L","U","E","S","(","1",")">>,
     <<"S","E","L","E","C","T"," ","*"," ","F","R","O","M"," ","w">>,
     <<"D","E","L","E","T","E"," ","F","R","O","M"," ","w">>,
     <<"D","R","O","P"," ","T","A","B","L","E"," ","w">>,
     <<";">>,
     <<" ">>}

\* the longest text given to execute_multiple_statements
MaxStmtChars == 40

MaxScanFrags == 5

\* texts for the scanners of quoted runs: split_statements, count_parameters
ScanFragments ==
    {<<"a">>, <<";">>, <<"?">>, <<"'">>, <<"\"">>, <<" ">>}

MaxTypeFrags == 3

\* statements for detect_query_type: every recognised first word, a common
\* table expression before a query and before a change of a table, lower
\* case, a blank and a letter that lengthens a word
TypeFragments ==
    {<<"W","I","T","H"," ","c"," ","A","S"," ","(","V","A","L","U","E","S"," ","(","1",")",")"," ">>,
     <<"W","I","T","H"," ","c"," ","A","S"," ","(","S","E","L","E","C","T"," ","1",")"," ">>,
     <<"S","E","L","E","C","T"," ","2">>,
     <<"D","E","L","E","T","E"," ","F","R","O","M"," ","t">>,
     <<"I","N","S","E","R","T"," ","I","N","T","O"," ","t"," ">>,
     <<"U","P","D","A","T","E"," ","t"," ","S","E","T"," ","a"," ","="," ","1">>,
     <<"C","R","E","A","T","E"," ">>,
     <<"D","R","O","P"," ">>,
     <<"P","R","A","G","M","A"," ">>,
     <<"E","X","P","L","A","I","N"," ">>,
     <<"s","e","l","e","c","t">>,
     <<" ">>,
     <<"x">>,
     <<LongS,"e","l","e","c","t"," ">>}

\* the longest column given to infer_column_type
MaxCells == 3

\* the widest result given to format_result
MaxResultCols == 2

\* the labels of a result's columns
ResultLabels == {"a", "b"}

\* the results execute_query and execute_multiple_statements build: rows
\* only under columns, and cursor.rowcount for the statements that change
\* a table
ResultsToFormat ==
    {r \in [columns : UNION {[1..n -> ResultLabels] : n \in 0..MaxResultCols},
            nrows : 0..2,
            rowcount : {-1, 0, 2},
            query_type : {StatementKeywords[k].name : k \in 1..Len(StatementKeywords)}
                            \cup {"OTHER", "EMPTY"}] :
        /\ Len(r.columns) = 0 => r.nrows = 0
        /\ r.query_type \in {"SELECT", "PRAGMA", "EXPLAIN"} <=> r.rowcount = r.nrows
        /\ r.query_type \notin {"SELECT", "PRAGMA", "EXPLAIN"} => Len(r.columns) = 0}

\* the longest engine message, in pieces
MaxMessagePieces == 4

\* the pieces of the engine's messages: the three texts the normalisation
\* looks for, the colon and the blank after them, a name, the head of the
\* message of a constraint, and the words of a syntax error capitalised
MessagePieces ==
    {<<"no such table">>, <<"no such column">>, <<"syntax error">>, <<":">>, <<" ">>,
     <<"t">>, <<"CHECK constraint failed">>, <<"Syntax Error">>}

\* the classes of the exceptions normalize_sqlite_error is given
RaisedClasses == Sqlite3DatabaseErrorClasses \cup {"KeyError"}

\* the references given to resolve_reference: a table, a table of a sheet,
\* a range of a sheet
ReferencesToResolve ==
    {parse_reference(<<"t">>), parse_reference(<<"S", ".", "T">>),
     parse_reference(<<"S", "!", "A", "1", ":", "B", "2">>)}

MaxHeaders == 3

\* header cells: texts and None
HeaderCells ==
    {None, <<>>, <<" ">>, <<"a">>, <<"A">>, <<" ", "a">>, <<"b">>, <<"a", "b", " ">>,
     <<"é">>, <<"É">>, <<NoBreakSpace, "a">>}

MaxTokens == 3

\* the tokens of a query: SQL keywords, names and a string literal
QueryTokens ==
    {[text |-> <<"F","R","O","M">>, keyword |-> TRUE],
     [text |-> <<"U","P","D","A","T","E">>, keyword |-> TRUE],
     [text |-> <<"I","N","S","E","R","T">>, keyword |-> TRUE],
     [text |-> <<"I","N","T","O">>, keyword |-> TRUE],
     [text |-> <<"O","R">>, keyword |-> TRUE],
     [text |-> <<"a">>, keyword |-> FALSE],
     [text |-> <<"'","f","r","o","m"," ","b","'">>, keyword |-> FALSE]}

\* the runs of whitespace that can stand for the single space between two
\* tokens
WhitespaceRuns == {<<" ", " ">>, <<"\n", "\t", NoBreakSpace>>}

\* the query made of tokens written one after another: the keywords in
\* lower case when lower holds, gaps[i] between the tokens i and i + 1
RECURSIVE QueryOfTokens(_, _, _)
QueryOfTokens(tokens, lower, gaps) ==
    IF tokens = <<>> THEN <<>>
    ELSE LET t == Head(tokens)
             text == IF t.keyword /\ lower THEN Lower(t.text) ELSE t.text
         IN  IF Len(tokens) = 1 THEN text
             ELSE text \o Head(gaps) \o QueryOfTokens(Tail(tokens), lower, Tail(gaps))


\* what a call gave: the value returned, or the exception class raised
Gave(value) == [raised |-> "none", value |-> value]

Threw(cls) == [raised |-> cls, value |-> <<>>]

\* nothing of a call of SQLITE is in progress
Idle ==
    /\ query = <<>>
    /\ nparams = 0
    /\ Fresh

InitFunctions ==
    /\ Idle
    /\ NoCalls
    /\ output = <<>>
    /\ \/ /\ pc = "parse_reference"
          /\ input \in FragSeqs(ReferenceFragments, MaxRefFrags)
       \/ /\ pc = "execute_multiple_statements"
          /\ input \in {t \in FragSeqs(StatementFragments, MaxStmtFrags) :
                            Len(t) <= MaxStmtChars}
       \/ /\ pc = "split_statements"
          /\ input \in FragSeqs(ScanFragments, MaxScanFrags)
       \/ /\ pc = "count_parameters"
          /\ input \in FragSeqs(ScanFragments, MaxScanFrags)
       \/ /\ pc = "detect_query_type"
          /\ input \in FragSeqs(TypeFragments, MaxTypeFrags)
       \/ /\ pc = "infer_column_type"
          /\ input \in UNION {[1..n -> CellKinds] : n \in 0..MaxCells}
       \/ /\ pc = "format_result"
          /\ input \in ResultsToFormat
       \/ /\ pc = "normalize_sqlite_error"
          /\ input \in {ForeignError(cls, m) :
                            cls \in RaisedClasses,
                            m \in FragSeqs(MessagePieces, MaxMessagePieces)}
       \/ /\ pc = "resolve_reference"
          /\ input \in [ref : ReferencesToResolve, host : HostOutcomes,
                         frame : HostFrames \cup {NoFrame}]
       \/ /\ pc = "anchors"
          /\ input \in FragSeqs(AnchoredFragments, MaxRefFrags)
       \/ /\ pc = "validate_headers"
          /\ input \in UNION {[1..n -> HeaderCells] : n \in 0..MaxHeaders}
       \/ /\ pc = "extract_table_references"
          /\ input \in UNION {[tokens : [1..n -> QueryTokens], lower : BOOLEAN,
                                gaps : [1..(n - 1) -> WhitespaceRuns]] :
                               n \in 1..MaxTokens}

\* output = parse_reference(input)
ApplyParseReference ==
    /\ pc = "parse_reference"
    /\ UNCHANGED <<calls, engine>>
    /\ output' = IF ParseReferenceRaises(input) THEN Threw("ValueError")
                 ELSE Gave(parse_reference(input))
    /\ pc' = "parse_reference_done"
    /\ UNCHANGED <<query, nparams, references, idx, df, schema, conn, opened, tables,
                   ref_mapping, rewritten_query, statements, stmt_idx,
                   last_select_result, last_result, result, exc, ret, resolver_calls,
                   input>>

\* execute_multiple_statements(conn, input) up to its loop, which Statement
\* runs; the result is left in result
ApplyExecuteMultipleStatements ==
    /\ pc = "execute_multiple_statements"
    /\ UNCHANGED <<calls, engine>>
    /\ statements' = split_statements(input)
    /\ stmt_idx' = 1
    /\ IF statements' = <<>>
       THEN result' = EmptyResult /\ pc' = "limits"
       ELSE result' = result /\ pc' = "statement"
    /\ UNCHANGED <<query, nparams, references, idx, df, schema, conn, opened, tables,
                   ref_mapping, rewritten_query,
                   last_select_result, last_result, exc, ret, resolver_calls,
                   input, output>>

\* output = detect_query_type(input)
ApplyDetectQueryType ==
    /\ pc = "detect_query_type"
    /\ UNCHANGED <<calls, engine>>
    /\ output' = Gave(detect_query_type(input))
    /\ pc' = "detect_query_type_done"
    /\ UNCHANGED <<query, nparams, references, idx, df, schema, conn, opened, tables,
                   ref_mapping, rewritten_query, statements, stmt_idx,
                   last_select_result, last_result, result, exc, ret, resolver_calls,
                   input>>

\* output = infer_column_type(input)
ApplyInferColumnType ==
    /\ pc = "infer_column_type"
    /\ UNCHANGED <<calls, engine>>
    /\ output' = Gave(infer_column_type(input))
    /\ pc' = "infer_column_type_done"
    /\ UNCHANGED <<query, nparams, references, idx, df, schema, conn, opened, tables,
                   ref_mapping, rewritten_query, statements, stmt_idx,
                   last_select_result, last_result, result, exc, ret, resolver_calls,
                   input>>

\* convert_types_for_excel takes result[col] for every label: under a label
\* that two columns bear this is a DataFrame, whose isna().all() has no truth
\* value
convert_types_for_excel_raises(columns) ==
    \E i, j \in 1..Len(columns) : i # j /\ columns[i] = columns[j]

\* output = format_result(input): the DataFrame returned, with its labels
\* in order, or the exception raised
ApplyFormatResult ==
    /\ pc = "format_result"
    /\ UNCHANGED <<calls, engine>>
    /\ LET r == ExecutionResult(Len(input.columns), input.nrows, input.rowcount,
                                input.query_type)
           shown == format_result(r)
       IN  output' =
             IF r.ncols # 0 /\ r.nrows # 0 /\ convert_types_for_excel_raises(input.columns)
             THEN Threw("ValueError")
             ELSE Gave([frame |-> shown,
                        labels |-> IF r.ncols # 0 /\ r.nrows # 0 THEN input.columns
                                   ELSE IF shown.ncols = 1 THEN <<"Result">>
                                   ELSE <<>>])
    /\ pc' = "format_result_done"
    /\ UNCHANGED <<query, nparams, references, idx, df, schema, conn, opened, tables,
                   ref_mapping, rewritten_query, statements, stmt_idx,
                   last_select_result, last_result, result, exc, ret, resolver_calls,
                   input>>

\* output = normalize_sqlite_error(input)
ApplyNormalizeSqliteError ==
    /\ pc = "normalize_sqlite_error"
    /\ UNCHANGED <<calls, engine>>
    /\ output' = Gave(normalize_sqlite_error(input))
    /\ pc' = "normalize_sqlite_error_done"
    /\ UNCHANGED <<query, nparams, references, idx, df, schema, conn, opened, tables,
                   ref_mapping, rewritten_query, statements, stmt_idx,
                   last_select_result, last_result, result, exc, ret, resolver_calls,
                   input>>

\* output = resolve_reference(input.ref) when the host does input.host and,
\* returning a DataFrame, returns input.frame: the frame returned, or the
\* class and the message of the exception raised; xl, when it can be
\* imported, is called with the reference
ApplyResolveReference ==
    /\ pc = "resolve_reference"
    /\ UNCHANGED <<calls, engine>>
    /\ LET e == resolve_reference(input.ref, input.host, input.frame)
       IN  output' = IF e = NoExc THEN Gave(input.frame)
                     ELSE [raised |-> e.cls, value |-> e.message]
    /\ resolver_calls' = IF input.host = "import_error" THEN resolver_calls
                         ELSE Append(resolver_calls, ExcelRef(input.ref))
    /\ pc' = "resolve_reference_done"
    /\ UNCHANGED <<query, nparams, references, idx, df, schema, conn, opened, tables,
                   ref_mapping, rewritten_query, statements, stmt_idx,
                   last_select_result, last_result, result, exc, ret,
                   input>>

\* output = extract_table_references of the text input written after each
\* of the four anchors
ApplyExtractAfterAnchors ==
    /\ pc = "anchors"
    /\ UNCHANGED <<calls, engine>>
    /\ output' =
         [from |-> extract_table_references(KwFROM \o <<" ">> \o input),
          join |-> extract_table_references(KwJOIN \o <<" ">> \o input),
          update |-> extract_table_references(KwUPDATE \o <<" ">> \o input),
          insert |-> extract_table_references(KwINSERT \o <<" ">> \o KwINTO
                                                  \o <<" ">> \o input)]
    /\ pc' = "anchors_done"
    /\ UNCHANGED <<query, nparams, references, idx, df, schema, conn, opened, tables,
                   ref_mapping, rewritten_query, statements, stmt_idx,
                   last_select_result, last_result, result, exc, ret, resolver_calls,
                   input>>

\* output = split_statements(input)
ApplySplitStatements ==
    /\ pc = "split_statements"
    /\ UNCHANGED <<calls, engine>>
    /\ output' = Gave(split_statements(input))
    /\ pc' = "split_statements_done"
    /\ UNCHANGED <<query, nparams, references, idx, df, schema, conn, opened, tables,
                   ref_mapping, rewritten_query, statements, stmt_idx,
                   last_select_result, last_result, result, exc, ret, resolver_calls,
                   input>>

\* output = count_parameters(input) and is_parameterized_query(input)
ApplyCountParameters ==
    /\ pc = "count_parameters"
    /\ UNCHANGED <<calls, engine>>
    /\ output' = Gave([count |-> count_parameters(input),
                       parameterized |-> is_parameterized_query(input)])
    /\ pc' = "count_parameters_done"
    /\ UNCHANGED <<query, nparams, references, idx, df, schema, conn, opened, tables,
                   ref_mapping, rewritten_query, statements, stmt_idx,
                   last_select_result, last_result, result, exc, ret, resolver_calls,
                   input>>

\* output = validate_headers(input): the list returned or the exception raised
ApplyValidateHeaders ==
    /\ pc = "validate_headers"
    /\ UNCHANGED <<calls, engine>>
    /\ output' = validate_headers(input)
    /\ pc' = "validate_headers_done"
    /\ UNCHANGED <<query, nparams, references, idx, df, schema, conn, opened, tables,
                   ref_mapping, rewritten_query, statements, stmt_idx,
                   last_select_result, last_result, result, exc, ret, resolver_calls,
                   input>>

\* output = the original texts of extract_table_references(q), in order, for
\* the query written with upper-case keywords and single spaces and for the
\* query written as input says
ApplyExtractTableReferences ==
    /\ pc = "extract_table_references"
    /\ UNCHANGED <<calls, engine>>
    /\ LET originals(refs) == [k \in 1..Len(refs) |-> refs[k].original]
           single == [k \in 1..(Len(input.tokens) - 1) |-> <<" ">>]
       IN  output' =
             [plain |-> originals(extract_table_references(
                            QueryOfTokens(input.tokens, FALSE, single))),
              reformatted |-> originals(extract_table_references(
                            QueryOfTokens(input.tokens, input.lower, input.gaps)))]
    /\ pc' = "extract_table_references_done"
    /\ UNCHANGED <<query, nparams, references, idx, df, schema, conn, opened, tables,
                   ref_mapping, rewritten_query, statements, stmt_idx,
                   last_select_result, last_result, result, exc, ret, resolver_calls,
                   input>>

NextFunctions ==
    \/ ApplyParseReference
    \/ ApplyExtractTableReferences
    \/ ApplyValidateHeaders
    \/ ApplyCountParameters
    \/ ApplySplitStatements
    \/ ApplyExecuteMultipleStatements
    \/ ApplyDetectQueryType
    \/ ApplyExtractAfterAnchors
    \/ ApplyResolveReference
    \/ ApplyNormalizeSqliteError
    \/ ApplyFormatResult
    \/ ApplyInferColumnType
    \/ Statement

SpecFunctions == InitFunctions /\ [][NextFunctions]_vars

\* ------------------------------------------------------------------------
\* Several invocations of the package's functions, one after another and
\* interleaved: each invocation of SQLITE is followed through its
\* connection, the turns of its loop over the references, its execution and
\* its close; engine holds the databases sqlite3 has created, a connection
\* being the index of its database
\* ------------------------------------------------------------------------

MaxCalls == 2

\* the connections opened in all
MaxConnections == 3

\* the queries of the invocations: one on a table of the host, one that
\* drops the table it loaded, one the engine refuses, one that creates a
\* table and is refused when it creates it again
SelectFromT == Characters(<<"SELECT * FROM t">>)

SelectThenDrop == Characters(<<"SELECT * FROM t; DROP TABLE t">>)

Misspelled == Characters(<<"SELEC 1">>)

CreateTwice == Characters(<<"CREATE TABLE t (a); CREATE TABLE t (a)">>)

\* what the host answers for a reference: nothing, a table that loads, a
\* table with a blank header
NoAnswer == [host |-> "none", frame |-> NoFrame]

TableAnswer ==
    [host |-> "dataframe",
     frame |-> [columns |-> Headers_id, types |-> <<"TEXT">>, nrows |-> ManyRows]]

BlankHeaderAnswer ==
    [host |-> "dataframe",
     frame |-> [columns |-> <<<<"a">>, <<" ">>>>, types |-> <<"TEXT", "TEXT">>,
                nrows |-> 1]]

\* an invocation as it begins: the function called, the query and what the
\* host will answer, then its place in the function, its connection, the
\* references of the query and the one the loop is at, the mapping, the
\* tables it found when the connection opened, the tables it loaded or
\* created since, the exception pending and what it returned
Call(fn, q, answer) ==
    [fn |-> fn, query |-> q, answer |-> answer,
     pc |-> "connect", conn |-> 0,
     references |-> <<>>, idx |-> 1, mapping |-> <<>>,
     found |-> {}, mine |-> {}, exc |-> NoExc, ret |-> NoReturn]

\* the invocations made; the host is asked only for a query that names a
\* table
NewCalls ==
    {Call("SQLITE", SelectFromT, a) : a \in {NoAnswer, TableAnswer, BlankHeaderAnswer}}
    \cup {Call("SQLITE", SelectThenDrop, TableAnswer)}
    \cup {Call("SQLITE", q, NoAnswer) : q \in {Misspelled, CreateTwice}}
    \cup {Call(fn, <<>>, NoAnswer) : fn \in {"SQLITE_VERSION", "SQLITE_FEATURES"}}

\* sqlite3.connect(":memory:"): a database of its own for the connection,
\* with no table in it
sqlite3_connect(eng) == [conn |-> Len(eng) + 1, engine |-> Append(eng, {})]

\* create_connection with every connection on one database
create_connection_shared(eng) ==
    IF eng = <<>> THEN [conn |-> 1, engine |-> <<{}>>]
    ELSE [conn |-> 1, engine |-> eng]

\* create_connection: the new connection, configured
create_connection(eng) ==
    [conn |-> sqlite3_connect(eng).conn,
     engine |-> [sqlite3_connect(eng).engine EXCEPT ![sqlite3_connect(eng).conn] =
                    cursor_execute(@, PragmaForeignKeysOn, 0).db]]

\* the invocation is over with an exception that SQLITE turns into a string
Failed(call, e) == [call EXCEPT !.exc = e, !.ret = ErrorString(e), !.pc = "done"]

\* the head of _execute_sqlite up to conn = create_connection(): the
\* outcomes it can have, as the invocation and the databases after it
ConnectedOutcomes(call, eng, e, refs, c) ==
    LET connected == [call EXCEPT !.references = refs,
                                  !.conn = c.conn,
                                  !.found = Keys(c.engine[c.conn]),
                                  !.pc = IF refs = <<>> THEN "execute" ELSE "load"]
    IN  IF e # NoExc THEN {[call |-> Failed(call, e), engine |-> eng]}
        ELSE {[call |-> connected, engine |-> c.engine],
              [call |-> Failed([call EXCEPT !.references = refs],
                               ForeignError("OperationalError",
                                            <<"unable to open database file">>)),
               engine |-> eng],
              [call |-> Failed(connected, ForeignError("OperationalError",
                                               <<"out of memory">>)),
               engine |-> c.engine]}

ConnectOutcomes(call, eng) ==
    ConnectedOutcomes(call, eng, ValidateInputs(call.query, 0),
                      extract_table_references(call.query), create_connection(eng))

\* the tables of a database that were not in it before
Added(before, after) == Keys(after) \ Keys(before)

\* an exception leaves the try block of the invocation
CallRaises(call, e, before, after) ==
    [call |-> [call EXCEPT !.exc = e, !.pc = "finally",
                           !.mine = @ \cup Added(before, after)],
     db |-> after]

\* one turn of the loop over the references on the database of the
\* connection: resolve_reference, build_table_schema, load_data_to_sqlite,
\* the mapping's entry
LoadOutcomes(call, db) ==
    LET ref == call.references[call.idx]
        e == resolve_reference(ref, call.answer.host, call.answer.frame)
    IN  IF e # NoExc THEN {CallRaises(call, e, db, db)}
        ELSE UNION {
          IF b.exc # NoExc THEN {CallRaises(call, b.exc, db, db)}
          ELSE {IF loaded.exc # NoExc THEN CallRaises(call, loaded.exc, db, loaded.db)
              ELSE [call |->
                      [call EXCEPT
                          !.mapping = Append(@, [original |-> ref.original,
                                                 sqlite_name |-> ref.sqlite_name]),
                          !.idx = @ + 1,
                          !.pc = IF call.idx < Len(call.references) THEN "load"
                                 ELSE "execute",
                          !.mine = @ \cup Added(db, loaded.db)],
                    db |-> loaded.db]
              : loaded \in load_data_to_sqlite(db, b.schema, call.answer.frame)}
          : b \in {build_table_schema(call.answer.frame, ref.sqlite_name)}}

\* the rest of the try block: the query rewritten and executed, the limits
\* checked, the result formatted
ExecutedOutcomes(call, db, ran) ==
    LET warning == check_output_limits(ran.result)
    IN  IF ran.status = "beyond" THEN {}
        ELSE IF ran.status = "error" THEN {CallRaises(call, ran.exc, db, ran.db)}
        ELSE IF warning # None /\ HasPiece(warning, "exceeding")
        THEN {CallRaises(call, SQLiteExcelError("SQLiteExcelError", warning),
                         db, ran.db)}
        ELSE {[call |-> [call EXCEPT !.ret = format_result(ran.result),
                                     !.pc = "finally",
                                     !.mine = @ \cup Added(db, ran.db)],
               db |-> ran.db],
              CallRaises(call, ForeignError("ValueError", <<"cannot convert value">>),
                         db, ran.db)}

\* the branch of _execute_sqlite on a ";" in the query
ExecuteRewritten(db, q, rewritten) ==
    IF Contains(q, ";") THEN execute_multiple_statements(db, rewritten)
    ELSE execute_query(db, rewritten, 0)

ExecuteOutcomes(call, db) ==
    ExecutedOutcomes(call, db,
        ExecuteRewritten(db, call.query,
                         substitute_references(call.query, call.mapping)))

\* finally: conn.close(), and SQLITE returns the table or the error string
FinallyOutcomes(call, db) ==
    {[call |-> IF call.exc = NoExc THEN [call EXCEPT !.pc = "done"]
               ELSE Failed(call, call.exc),
      db |-> db]}

\* the step an invocation that holds a connection takes next
StepOutcomes(call, db) ==
    CASE call.pc = "load" -> LoadOutcomes(call, db)
      [] call.pc = "execute" -> ExecuteOutcomes(call, db)
      [] call.pc = "finally" -> FinallyOutcomes(call, db)

\* what an invocation can return from where it is, no other invocation
\* touching its database
RECURSIVE ReturnsFrom(_, _)
ReturnsFrom(call, db) ==
    IF call.pc = "done" THEN {call.ret}
    ELSE UNION {ReturnsFrom(o.call, o.db) : o \in StepOutcomes(call, db)}

\* what an invocation of SQLITE can return when it is the only invocation
\* there ever was
ReturnsOf(call) ==
    UNION {IF o.call.pc = "done" THEN {o.call.ret}
           ELSE ReturnsFrom(o.call, o.engine[o.call.conn])
           : o \in ConnectOutcomes(call, <<>>)}

\* the same for each invocation of SQLITE among the invocations made
ReturnsAlone ==
    {[query |-> c.query, answer |-> c.answer, returns |-> ReturnsOf(c)] :
        c \in {n \in NewCalls : n.fn = "SQLITE"}}

\* SQLITE_VERSION(): get_sqlite_version opens a connection of its own, asks
\* the engine for its version and closes the connection
VersionOutcome(call, eng) ==
    LET c == sqlite3_connect(eng)
    IN  [call |-> [call EXCEPT !.conn = c.conn, !.pc = "done",
                               !.ret = Returned("str", <<"3.40.1">>, 0, 0)],
         engine |-> c.engine]

\* the table check_feature_support creates and fills in its database when
\* it tries the engine's UPSERT: CREATE TABLE t(x PRIMARY KEY), then a row
FeaturesTable == Table(<<"t">>, <<"t">>, <<<<"x">>>>, 1)

\* the features check_feature_support tries: window functions, common table
\* expressions, UPSERT, JSON
FeatureCount == 4

\* SQLITE_FEATURES(): check_feature_support opens a connection of its own,
\* tries each feature on it and closes it; the result has a row for each
\* feature under the columns Feature and Supported
FeaturesOutcome(call, eng) ==
    LET c == sqlite3_connect(eng)
    IN  [call |-> [call EXCEPT !.conn = c.conn, !.pc = "done",
                               !.mine = {FeaturesTable.key},
                               !.ret = Returned("table", <<>>, 2, FeatureCount)],
         engine |-> [c.engine EXCEPT ![c.conn] = @ \cup {FeaturesTable}]]

InitCalls ==
    /\ Idle
    /\ NoFunction
    /\ pc = "calls"
    /\ engine = <<>>
    /\ calls \in [1..MaxCalls -> NewCalls]

\* conn = create_connection() and what comes before it
CallConnect(k) ==
    /\ calls[k].fn = "SQLITE"
    /\ calls[k].pc = "connect"
    /\ \E o \in ConnectOutcomes(calls[k], engine) :
          /\ calls' = [calls EXCEPT ![k] = o.call]
          /\ engine' = o.engine
    /\ UNCHANGED <<query, nparams, pc, references, idx, df, schema, conn, opened, tables,
                   ref_mapping, rewritten_query, statements, stmt_idx,
                   last_select_result, last_result, result, exc, ret, resolver_calls,
                   input, output>>

\* one turn of the loop over the references
CallLoad(k) ==
    /\ calls[k].pc = "load"
    /\ \E o \in LoadOutcomes(calls[k], engine[calls[k].conn]) :
          /\ calls' = [calls EXCEPT ![k] = o.call]
          /\ engine' = [engine EXCEPT ![calls[k].conn] = o.db]
    /\ UNCHANGED <<query, nparams, pc, references, idx, df, schema, conn, opened, tables,
                   ref_mapping, rewritten_query, statements, stmt_idx,
                   last_select_result, last_result, result, exc, ret, resolver_calls,
                   input, output>>

\* the query runs on the connection
CallExecute(k) ==
    /\ calls[k].pc = "execute"
    /\ \E o \in ExecuteOutcomes(calls[k], engine[calls[k].conn]) :
          /\ calls' = [calls EXCEPT ![k] = o.call]
          /\ engine' = [engine EXCEPT ![calls[k].conn] = o.db]
    /\ UNCHANGED <<query, nparams, pc, references, idx, df, schema, conn, opened, tables,
                   ref_mapping, rewritten_query, statements, stmt_idx,
                   last_select_result, last_result, result, exc, ret, resolver_calls,
                   input, output>>

\* finally: conn.close(), and SQLITE returns
CallFinally(k) ==
    /\ calls[k].pc = "finally"
    /\ \E o \in FinallyOutcomes(calls[k], engine[calls[k].conn]) :
          /\ calls' = [calls EXCEPT ![k] = o.call]
          /\ engine' = [engine EXCEPT ![calls[k].conn] = o.db]
    /\ UNCHANGED <<query, nparams, pc, references, idx, df, schema, conn, opened, tables,
                   ref_mapping, rewritten_query, statements, stmt_idx,
                   last_select_result, last_result, result, exc, ret, resolver_calls,
                   input, output>>

\* SQLITE_VERSION()
CallVersion(k) ==
    /\ calls[k].fn = "SQLITE_VERSION"
    /\ calls[k].pc = "connect"
    /\ LET o == VersionOutcome(calls[k], engine)
       IN  /\ calls' = [calls EXCEPT ![k] = o.call]
           /\ engine' = o.engine
    /\ UNCHANGED <<query, nparams, pc, references, idx, df, schema, conn, opened, tables,
                   ref_mapping, rewritten_query, statements, stmt_idx,
                   last_select_result, last_result, result, exc, ret, resolver_calls,
                   input, output>>

\* SQLITE_FEATURES()
CallFeatures(k) ==
    /\ calls[k].fn = "SQLITE_FEATURES"
    /\ calls[k].pc = "connect"
    /\ LET o == FeaturesOutcome(calls[k], engine)
       IN  /\ calls' = [calls EXCEPT ![k] = o.call]
           /\ engine' = o.engine
    /\ UNCHANGED <<query, nparams, pc, references, idx, df, schema, conn, opened, tables,
                   ref_mapping, rewritten_query, statements, stmt_idx,
                   last_select_result, last_result, result, exc, ret, resolver_calls,
                   input, output>>

\* the caller invokes a function of the package again
CallAgain(k) ==
    /\ calls[k].pc = "done"
    /\ Len(engine) + Cardinality({j \in 1..MaxCalls : calls[j].pc = "connect"})
           < MaxConnections
    /\ \E new \in NewCalls : calls' = [calls EXCEPT ![k] = new]
    /\ engine' = engine
    /\ UNCHANGED <<query, nparams, pc, references, idx, df, schema, conn, opened, tables,
                   ref_mapping, rewritten_query, statements, stmt_idx,
                   last_select_result, last_result, result, exc, ret, resolver_calls,
                   input, output>>

NextCalls ==
    \E k \in 1..MaxCalls :
        \/ CallConnect(k)
        \/ CallLoad(k)
        \/ CallExecute(k)
        \/ CallFinally(k)
        \/ CallVersion(k)
        \/ CallFeatures(k)
        \/ CallAgain(k)

SpecCalls == InitCalls /\ [][NextCalls]_vars

\* ------------------------------------------------------------------------
\* Properties of SQLITE (checked under Spec)
\* ------------------------------------------------------------------------

ErrorPrefix == "Error: "

\* the query has no character that is not whitespace
IsBlankQuery(q) == \A i \in 1..Len(q) : IsSpace(q[i])

\* C1: SQLITE always returns normally: no exception is left pending at its
\* return, what it returns is a table or a string, and when a step of the
\* pipeline raised, it is a string that starts with "Error: ".
C1_NeverRaises ==
    /\ exc # NoExc => pc \in {"finally", "handler", "done"}
    /\ pc = "done" =>
          /\ ret.kind \in {"table", "str"}
          /\ exc # NoExc =>
                /\ ret.kind = "str"
                /\ ret.text # <<>>
                /\ Head(ret.text) = ErrorPrefix

\* a call whose execution step raised an engine exception has returned the
\* error string
C1_Witness ==
    /\ pc = "done"
    /\ exc.cls = "ProgrammingError"
    /\ conn = "closed"
    /\ ret.kind = "str"
    /\ Head(ret.text) = ErrorPrefix

\* C2: a call that opened an engine connection ends with the connection
\* closed, whichever step failed, engine configuration included.
C2_ConnectionClosed ==
    (pc = "done" /\ opened > 0) => conn = "closed"

\* C3: a call whose query is not blank and whose number of params differs
\* from the number of ? placeholders counted in the query returns the
\* QuerySyntax error that reports the expected and the actual count.
C3_ParameterCountMismatch ==
    (pc = "done" /\ ~IsBlankQuery(query) /\ nparams # count_parameters(query)) =>
        ret = Returned("str",
                       <<ErrorPrefix, "expected ", ToString(count_parameters(query)),
                         " parameters, got ", ToString(nparams)>>, 0, 0)

\* C4: for an empty or whitespace-only query no engine is opened and the host
\* resolver is not called, and the call returns exactly "Error: empty query".
C4_EmptyQuery ==
    IsBlankQuery(query) =>
        /\ opened = 0
        /\ conn = "none"
        /\ resolver_calls = <<>>
        /\ pc = "done" => ret = Returned("str", <<ErrorPrefix, "empty query">>, 0, 0)

\* a whitespace-only query given parameters has returned the empty-query error
C4_Witness ==
    /\ pc = "done"
    /\ query # <<>>
    /\ IsBlankQuery(query)
    /\ nparams > 0
    /\ ret.text = <<ErrorPrefix, "empty query">>

\* ------------------------------------------------------------------------
\* Properties of the parser (checked under SpecParser)
\* ------------------------------------------------------------------------

\* Repeat(c, n): n times c
Repeat(c, n) == [k \in 1..n |-> c]

\* the position of the quote that closes a quoted run whose text begins at
\* i, a doubled quote standing for itself; 0 when the run is not closed
RECURSIVE ClosingQuote(_, _, _)
ClosingQuote(q, i, quote) ==
    IF i > Len(q) THEN 0
    ELSE IF q[i] # quote THEN ClosingQuote(q, i + 1, quote)
    ELSE IF i + 1 <= Len(q) /\ q[i + 1] = quote THEN ClosingQuote(q, i + 2, quote)
    ELSE i

\* the position of the first */ at or after i; 0 when there is none
BlockCommentEnd(q, i) ==
    IF \E p \in i..Len(q) : At(q, p, <<"*", "/">>)
    THEN CHOOSE p \in i..Len(q) : At(q, p, <<"*", "/">>) /\
             \A k \in i..(p - 1) : ~At(q, k, <<"*", "/">>)
    ELSE 0

\* the position of the first newline at or after i; Len(q) + 1 when there is none
LineEnd(q, i) == IF FindChar(q, "\n", i) = 0 THEN Len(q) + 1 ELSE FindChar(q, "\n", i)

\* the class of each character of a query as SQL reads it: "literal" inside
\* a closed single-quoted literal and "quote" for its two quotes, "name" for
\* a closed double-quoted name and for a single-quoted run that . or !
\* follows (a quoted sheet name), quotes included, "comment" for a -- comment
\* up to its line's end and for a closed /* */ comment, "code" otherwise
RECURSIVE LexClasses(_, _)
LexClasses(q, i) ==
    IF i > Len(q) THEN <<>>
    ELSE IF At(q, i, <<"-", "-">>)
    THEN Repeat("comment", LineEnd(q, i) - i) \o LexClasses(q, LineEnd(q, i))
    ELSE IF At(q, i, <<"/", "*">>) /\ BlockCommentEnd(q, i + 2) # 0
    THEN Repeat("comment", BlockCommentEnd(q, i + 2) + 2 - i) \o
         LexClasses(q, BlockCommentEnd(q, i + 2) + 2)
    ELSE IF q[i] \in {"'", "\""} /\ ClosingQuote(q, i + 1, q[i]) # 0
    THEN LET e == ClosingQuote(q, i + 1, q[i])
             sheet == e + 1 <= Len(q) /\ q[e + 1] \in {".", "!"}
         IN  IF q[i] = "\"" \/ sheet
             THEN Repeat("name", e - i + 1) \o LexClasses(q, e + 1)
             ELSE <<"quote">> \o Repeat("literal", e - i - 1) \o <<"quote">> \o
                  LexClasses(q, e + 1)
    ELSE <<"code">> \o LexClasses(q, i + 1)

\* a character that can belong to a reference token, quotes included
IsTokenChar(c) == IsWordChar(c) \/ c \in {".", "!", "$", ":", "'", "\""}

\* tok stands at p in s, outside literals and comments, with no token
\* character on either side
TokenAt(s, p, tok) ==
    /\ tok # <<>>
    /\ At(s, p, tok)
    /\ p = 1 \/ ~IsTokenChar(s[p - 1])
    /\ p + Len(tok) > Len(s) \/ ~IsTokenChar(s[p + Len(tok)])
    /\ LexClasses(s, 1)[p] \notin {"literal", "comment"}

HasToken(s, tok) == \E p \in 1..Len(s) : TokenAt(s, p, tok)

\* an anchor (FROM, JOIN, UPDATE, INSERT INTO) and whitespace end just
\* before p
AfterAnchor(q, p) ==
    \E a \in 1..(p - 1) :
        /\ WordBoundary(q, a)
        /\ LexClasses(q, 1)[a] = "code"
        /\ \/ \E kw \in {KwFROM, KwJOIN, KwUPDATE} :
                 /\ AtIgnoreCase(q, a, kw)
                 /\ a + Len(kw) < p
                 /\ SkipSpace(q, a + Len(kw)) = p
           \/ LET b == SkipSpace(q, a + Len(KwINSERT))
              IN  /\ AtIgnoreCase(q, a, KwINSERT)
                  /\ b > a + Len(KwINSERT)
                  /\ AtIgnoreCase(q, b, KwINTO)
                  /\ b + Len(KwINTO) < p
                  /\ SkipSpace(q, b + Len(KwINTO)) = p

\* the reference text stands at p, where an anchor introduces it
OccursAt(q, p, tok) == TokenAt(q, p, tok) /\ AfterAnchor(q, p)

Occurs(q, tok) == \E p \in 1..Len(q) : OccursAt(q, p, tok)

FirstOccurrence(q, tok) == CHOOSE p \in 1..Len(q) : OccursAt(q, p, tok) /\
                              \A k \in 1..(p - 1) : ~OccursAt(q, k, tok)

\* C5: the references come in the order of their first occurrence in the
\* query, whichever anchor introduces them, and no two have the same original.
C5_FirstOccurrenceOrder ==
    pc # "apply_extract" =>
        \A i, j \in 1..Len(references) :
            i < j =>
                /\ references[i].original # references[j].original
                /\ (Occurs(query, references[i].original) /\
                    Occurs(query, references[j].original)) =>
                       FirstOccurrence(query, references[i].original)
                           < FirstOccurrence(query, references[j].original)

\* every occurrence of the text in the query lies wholly inside a
\* single-quoted literal or a comment, as SQL reads the query
OnlyInsideLiteralOrComment(q, text) ==
    LET cls == LexClasses(q, 1)
        occ == {p \in 1..Len(q) : At(q, p, text)}
    IN  /\ occ # {}
        /\ \A p \in occ : \A i \in p..(p + Len(text) - 1) : cls[i] \in {"literal", "comment"}

\* C6: no reference is extracted from text that stands only inside a
\* single-quoted literal (doubled quotes included), a -- comment or a
\* /* */ comment.
C6_NoReferenceFromLiteralOrComment ==
    pc # "apply_extract" =>
        \A k \in 1..Len(references) :
            ~OnlyInsideLiteralOrComment(query, references[k].original)

KwRECURSIVE == <<"R","E","C","U","R","S","I","V","E">>

KwAS == <<"A","S">>

RECURSIVE WordRunEnd(_, _)
WordRunEnd(q, p) ==
    IF p <= Len(q) /\ IsWordChar(q[p]) THEN WordRunEnd(q, p + 1) ELSE p

\* the name a WITH at p introduces: WITH [RECURSIVE] name [(columns)] AS (
CteNameAt(q, p) ==
    LET a == SkipSpace(q, p + 4)
        b == IF AtIgnoreCase(q, a, KwRECURSIVE) /\ SkipSpace(q, a + 9) > a + 9
             THEN SkipSpace(q, a + 9) ELSE a
        e == WordRunEnd(q, b)
        c == IF e <= Len(q) /\ q[e] = "(" /\ FindChar(q, ")", e) # 0
             THEN FindChar(q, ")", e) + 1 ELSE e
        d == SkipSpace(q, c)
        f == SkipSpace(q, d + 2)
    IN  IF /\ WordBoundary(q, p)
           /\ AtIgnoreCase(q, p, KwWITH)
           /\ a > p + 4
           /\ e > b
           /\ AtIgnoreCase(q, d, KwAS)
           /\ f <= Len(q)
           /\ q[f] = "("
        THEN SubSeq(q, b, e - 1)
        ELSE <<>>

CteNames(q) == {CteNameAt(q, p) : p \in 1..Len(q)} \ {<<>>}

\* C7: a name introduced by WITH <name> AS (...) is not returned as a
\* reference.
C7_NoCteReference ==
    pc # "apply_extract" =>
        \A k \in 1..Len(references) : references[k].original \notin CteNames(query)

\* C8: for every extracted reference r, the query rewritten under the
\* mapping r.original -> r.sqlite_name holds r.sqlite_name and no longer
\* holds r.original as a free token.
C8_EveryReferenceRewritten ==
    pc = "applied" =>
        \A k \in 1..Len(references) :
            LET r == references[k]
                out == substitute_references(query,
                           <<[original |-> r.original, sqlite_name |-> r.sqlite_name]>>)
            IN  /\ ContainsText(out, r.sqlite_name)
                /\ r.original # r.sqlite_name => ~HasToken(out, r.original)

\* the contents of the single-quoted literals of q, in order
RECURSIVE StringLiterals(_, _, _, _)
StringLiterals(q, cls, i, current) ==
    IF i > Len(q) THEN <<>>
    ELSE IF cls[i] = "literal" THEN StringLiterals(q, cls, i + 1, Append(current, q[i]))
    ELSE IF cls[i] = "quote" /\ i > 1 /\ cls[i - 1] \in {"literal", "quote"}
    THEN <<current>> \o StringLiterals(q, cls, i + 1, <<>>)
    ELSE StringLiterals(q, cls, i + 1, <<>>)

LiteralsOf(q) == StringLiterals(q, LexClasses(q, 1), 1, <<>>)

\* C9: rewriting leaves the text inside every single-quoted literal of the
\* query unchanged.
C9_LiteralsUnchanged ==
    pc = "applied" => LiteralsOf(rewritten_query) = LiteralsOf(query)

\* C10: two extracted references with distinct original have distinct
\* sqlite_name.
C10_UniqueEngineNames ==
    pc # "apply_extract" =>
        \A i, j \in 1..Len(references) :
            references[i].original # references[j].original =>
                references[i].sqlite_name # references[j].sqlite_name

\* ------------------------------------------------------------------------
\* Properties of the functions (checked under SpecFunctions)
\* ------------------------------------------------------------------------

\* C11: for a reference text that holds a character other than whitespace,
\* parse_reference gives a sqlite_name that is not empty, holds only
\* lowercase ASCII letters, digits and underscores, and does not start with
\* a digit; for a text that is empty or holds only whitespace it raises
\* ValueError and gives no name.
C11_EngineNameShape ==
    /\ (pc = "parse_reference_done" /\ Strip(input) # <<>>) =>
          /\ output.raised = "none"
          /\ LET name == output.value.sqlite_name
             IN  /\ name # <<>>
                 /\ \A i \in 1..Len(name) :
                        name[i] \in LowerSet \cup DigitSet \cup {"_"}
                 /\ name[1] \notin DigitSet
    /\ (pc = "parse_reference_done" /\ Strip(input) = <<>>) =>
          output = Threw("ValueError")

\* C11 as it is worded: for every reference text that is not empty,
\* parse_reference gives a sqlite_name of that shape. A text of whitespace
\* only is not empty, and parse_reference raises ValueError for it.
C11_EveryNonEmptyReference ==
    (pc = "parse_reference_done" /\ input # <<>>) =>
        /\ output.raised = "none"
        /\ LET name == output.value.sqlite_name
           IN  /\ name # <<>>
               /\ \A i \in 1..Len(name) : name[i] \in LowerSet \cup DigitSet \cup {"_"}
               /\ name[1] \notin DigitSet

\* a reference that begins with a digit was given the r_ prefix
C11_Witness ==
    /\ pc = "parse_reference_done"
    /\ input = <<"1", "a">>
    /\ output.raised = "none"
    /\ output.value.sqlite_name = <<"r", "_", "1", "a">>

\* a reference with nothing to keep was given the default name
C11_WitnessDefault ==
    /\ pc = "parse_reference_done"
    /\ input = <<"$">>
    /\ output.raised = "none"
    /\ output.value.sqlite_name = <<"t", "a", "b", "l", "e", "_", "r", "e", "f">>

\* ------------------------------------------------------------------------
\* Quoted runs, as the scanners of statements and placeholders describe them
\* ------------------------------------------------------------------------

\* for each character of s, whether it lies in a single- or double-quoted
\* run (its quotes included); a doubled quote inside a run does not end it,
\* and a run that is never closed lasts to the end of s
RECURSIVE InQuotedRun(_, _)
InQuotedRun(s, i) ==
    IF i > Len(s) THEN <<>>
    ELSE IF s[i] \in {"'", "\""}
    THEN LET e == ClosingQuote(s, i + 1, s[i])
             stop == IF e = 0 THEN Len(s) ELSE e
         IN  Repeat(TRUE, stop - i + 1) \o InQuotedRun(s, stop + 1)
    ELSE <<FALSE>> \o InQuotedRun(s, i + 1)

\* the positions of s that hold c outside every quoted run
BarePositions(s, c) == {p \in 1..Len(s) : s[p] = c /\ ~InQuotedRun(s, 1)[p]}

\* the pieces of s between the positions in cuts, from position i on, in
\* textual order
RECURSIVE PiecesFrom(_, _, _)
PiecesFrom(s, i, cuts) ==
    LET ahead == {c \in cuts : c >= i}
        n == IF ahead = {} THEN Len(s) + 1
             ELSE CHOOSE c \in ahead : \A d \in ahead : c <= d
    IN  <<SubSeq(s, i, n - 1)>> \o
        (IF n > Len(s) THEN <<>> ELSE PiecesFrom(s, n + 1, cuts))

\* the trimmed pieces of s between its ; outside quoted runs, those that
\* trim to nothing left out
RECURSIVE TrimmedNonEmpty(_)
TrimmedNonEmpty(pieces) ==
    IF pieces = <<>> THEN <<>>
    ELSE (IF Strip(Head(pieces)) = <<>> THEN <<>> ELSE <<Strip(Head(pieces))>>) \o
         TrimmedNonEmpty(Tail(pieces))

\* ------------------------------------------------------------------------
\* Properties of the execution step of SQLITE (checked under Spec)
\* ------------------------------------------------------------------------

\* C12: a query goes through the multi-statement path if and only if it has
\* a ; outside string literals; a query whose only ; are inside literals
\* runs as one statement with its params bound.
C12_MultiPathIffBareSemicolon ==
    /\ stmt_idx >= 1 => BarePositions(query, ";") # {}
    /\ (stmt_idx = 0 /\ result # NoResult) => BarePositions(query, ";") = {}

\* C13: execute_multiple_statements returns the result of the most recent
\* row-producing statement (SELECT, PRAGMA, EXPLAIN, WITH ... SELECT) when one
\* ran, otherwise the result of the last statement, otherwise an EMPTY
\* result with no rows.
C13_MostRecentRowProducing ==
    (pc = "limits" /\ stmt_idx >= 1) =>
        LET producing == {k \in 1..Len(statements) :
                             detect_query_type(statements[k]) \in {"SELECT", "PRAGMA", "EXPLAIN"}}
            latest == CHOOSE k \in producing : \A j \in producing : j <= k
        IN  IF statements = <<>> THEN result = EmptyResult
            ELSE IF producing = {} THEN result = last_result
            ELSE /\ result.query_type = detect_query_type(statements[latest])
                 /\ latest = Len(statements) => result = last_result

\* C14: split_statements gives, in textual order, the trimmed non-empty
\* segments of sql between the ; that lie outside single- and double-quoted
\* runs (a doubled quote does not end a run); a ; inside a run never splits
\* and no statement returned is empty or whitespace-only.
C14_SplitAtBareSemicolons ==
    pc = "split_statements_done" =>
        /\ output.value = TrimmedNonEmpty(PiecesFrom(input, 1, BarePositions(input, ";")))
        /\ \A k \in 1..Len(output.value) : Strip(output.value[k]) # <<>>

\* the ; inside the quoted run did not split, the one after it did
C14_Witness ==
    /\ pc = "split_statements_done"
    /\ input = <<"'", ";", "'", ";", "a">>
    /\ output.value = <<<<"'", ";", "'">>, <<"a">>>>

\* C15: count_parameters is the number of ? outside single- and
\* double-quoted runs, a doubled quote inside a run not ending it;
\* is_parameterized_query is true exactly when that number is above 0.
C15_CountsBarePlaceholders ==
    pc = "count_parameters_done" =>
        /\ output.value.count = Cardinality(BarePositions(input, "?"))
        /\ output.value.parameterized <=> (Cardinality(BarePositions(input, "?")) > 0)

\* one ? inside a quoted run and one outside: one placeholder
C15_Witness ==
    /\ pc = "count_parameters_done"
    /\ input = <<"\"", "?", "\"", "?">>
    /\ output.value.count = 1
    /\ output.value.parameterized

\* C20: the list of references extracted from a query (their original
\* texts, in order) is the same when the letter case of the SQL keywords is
\* changed or a run of whitespace between tokens is replaced by another
\* non-empty run.
C20_ReformattingKeepsReferences ==
    pc = "extract_table_references_done" => output.reformatted = output.plain

\* ------------------------------------------------------------------------
\* Properties of the schema builder (checked under SpecFunctions)
\* ------------------------------------------------------------------------

\* the header at i is null or trims to nothing
EmptyHeader(headers, i) == headers[i] = None \/ Strip(headers[i]) = <<>>

\* the header at i is, trimmed and ignoring case, an earlier header
RepeatedHeader(headers, i) ==
    \E j \in 1..(i - 1) : Lower(Strip(headers[j])) = Lower(Strip(headers[i]))

\* C16: validate_headers accepts a list if and only if no entry is null or
\* empty after trimming and no two entries are equal ignoring case; when it
\* rejects, the error reports the first violating entry in list order: the
\* 1-indexed position of an empty header, or the duplicate's trimmed spelling.
C16_FirstViolatingHeader ==
    pc = "validate_headers_done" =>
        LET violating == {i \in 1..Len(input) :
                             EmptyHeader(input, i) \/ RepeatedHeader(input, i)}
            first == CHOOSE i \in violating : \A j \in violating : i <= j
        IN  IF violating = {} THEN output.exc = NoExc
            ELSE IF EmptyHeader(input, first)
            THEN /\ output.exc.cls = "EmptyColumnNameError"
                 /\ HasPiece(output.exc.message, ToString(first))
            ELSE /\ output.exc.cls = "DuplicateColumnError"
                 /\ output.exc.message = <<"duplicate column name: ">> \o Strip(input[first])

\* a repeat that differs in case and padding, ahead of an empty header
C16_Witness ==
    /\ pc = "validate_headers_done"
    /\ input = <<<<"A">>, <<" ", "a">>, <<>>>>
    /\ output.exc.cls = "DuplicateColumnError"
    /\ output.exc.message = <<"duplicate column name: ", "a">>

\* an empty header reported by its position
C16_WitnessEmpty ==
    /\ pc = "validate_headers_done"
    /\ input = <<<<"a">>, <<" ">>, <<"a">>>>
    /\ output.exc.cls = "EmptyColumnNameError"
    /\ HasPiece(output.exc.message, "2")

\* C18: when the execution result has more than 1,048,576 rows or more than
\* 16,384 columns the invocation fails with the OutputLimit error kind and
\* returns its error string; it never returns a table for such a result.
C18_OutputLimitKind ==
    (/\ pc = "done"
     /\ result.nrows > EXCEL_MAX_ROWS \/ result.ncols > EXCEL_MAX_COLS) =>
        /\ ret.kind = "str"
        /\ exc.cls = "OutputLimitError"
        /\ ret.text = exc.text

\* ------------------------------------------------------------------------
\* Properties of SQLITE("SELECT * FROM <ref>") (checked under SpecSelectAll)
\* ------------------------------------------------------------------------

\* C17: for a host table that resolved (at least one row and one column) and
\* whose headers pass validation, and for every form of reference naming it,
\* SQLITE("SELECT * FROM <ref>") returns a table with as many rows as the
\* source and the same columns in the same order. A call that the engine or
\* the conversion of a cell's value stopped for reasons of the data is left
\* aside.
C17_SelectAllKeepsShape ==
    (/\ pc = "done"
     /\ df # NoFrame
     /\ validate_headers(df.columns).exc = NoExc
     /\ exc # UnsupportedTypeError
     /\ exc.cls # "ValueError") =>
        /\ ret.kind = "table"
        /\ ret.nrows = df.nrows
        /\ ret.ncols = Len(df.columns)
        /\ [k \in 1..Len(schema.columns) |-> schema.columns[k].name] = df.columns

\* ------------------------------------------------------------------------
\* Properties of several invocations (checked under SpecCalls)
\* ------------------------------------------------------------------------

\* C19: every invocation of SQLITE works on a freshly opened, initially
\* empty engine of its own: its database had no table when it was opened,
\* every table in it is one the invocation loaded or created itself, no
\* other invocation holds the same database, and what the invocation
\* returns is what it returns when it is the only invocation there ever
\* was, whatever other invocations did before it or between its steps.
C19_OwnEmptyEngine ==
    \A k \in 1..MaxCalls :
        calls[k].fn = "SQLITE" =>
            /\ calls[k].conn # 0 =>
                  /\ calls[k].found = {}
                  /\ Keys(engine[calls[k].conn]) \subseteq calls[k].mine
                  /\ \A j \in 1..MaxCalls :
                        (j # k /\ calls[j].conn # 0) => calls[j].conn # calls[k].conn
            /\ calls[k].pc = "done" =>
                  \E alone \in ReturnsAlone :
                      /\ alone.query = calls[k].query
                      /\ alone.answer = calls[k].answer
                      /\ calls[k].ret \in alone.returns

\* two invocations hold the table t at once, each in its own database; the
\* first caller's earlier invocation had loaded t too and is over
C19_Witness ==
    /\ calls[1].pc = "execute"
    /\ calls[1].conn = 3
    /\ calls[1].mine = {<<"t">>}
    /\ calls[2].pc = "finally"
    /\ calls[2].conn = 2
    /\ calls[2].query = CreateTwice
    /\ Keys(engine[2]) = {<<"t">>}
    /\ Keys(engine[1]) = {<<"t">>}

\* an invocation has returned the table t it loaded, after an invocation
\* that was refused the table t it had created itself and while
\* SQLITE_FEATURES kept a table t of its own
C19_WitnessOutcomes ==
    /\ calls[1].pc = "done"
    /\ calls[1].query = SelectFromT
    /\ calls[1].conn = 3
    /\ calls[1].ret = Returned("table", <<>>, 1, ManyRows)
    /\ calls[2].pc = "done"
    /\ calls[2].fn = "SQLITE_FEATURES"
    /\ calls[2].conn = 2
    /\ engine[1] = {Table(<<"t">>, <<"t">>, <<<<"a">>>>, 0)}

\* ------------------------------------------------------------------------
\* C21: within one call the references are handled one after another in
\* extraction order: the resolver is called for reference i+1 only when
\* references 1..i have been resolved, given a schema and loaded, each under
\* its own entry of the mapping and with its own table in the database; the
\* query is rewritten and executed only when every reference is loaded; once
\* a step has failed no reference is resolved or loaded any more and the
\* query is neither rewritten nor executed.
\* ------------------------------------------------------------------------
C21_ReferencesOneAfterAnother ==
    [][/\ resolver_calls' # resolver_calls =>
            LET i == Len(resolver_calls) + 1 IN
            /\ exc = NoExc
            /\ i <= Len(references)
            /\ resolver_calls' = Append(resolver_calls, ExcelRef(references[i]))
            /\ Len(ref_mapping) = i - 1
            /\ Cardinality(tables) = i - 1
            /\ \A j \in 1..(i - 1) :
                  /\ ref_mapping[j].original = references[j].original
                  /\ KeyOf(sanitize_column_name(references[j].sqlite_name))
                         \in Keys(tables)
       /\ pc = "load" =>
            /\ exc = NoExc
            /\ Len(resolver_calls) = idx
            /\ Len(ref_mapping) = idx - 1
            /\ Cardinality(tables) = idx - 1
            /\ exc' = NoExc =>
                  /\ tables \subseteq tables'
                  /\ Keys(tables') = Keys(tables) \cup
                         {KeyOf(sanitize_column_name(references[idx].sqlite_name))}
                  /\ Cardinality(tables') = idx
                  /\ Len(ref_mapping') = idx
       /\ pc \in {"rewrite", "execute", "statement"} =>
            /\ exc = NoExc
            /\ Len(ref_mapping) = Len(references)
            /\ Len(resolver_calls) = Len(references)
       /\ tables' # tables => pc \in {"load", "execute", "statement"}
       /\ exc # NoExc =>
            /\ pc' \in {"finally", "handler", "done"}
            /\ UNCHANGED <<exc, resolver_calls, df, schema, tables, ref_mapping,
                           rewritten_query, statements, stmt_idx, last_result,
                           last_select_result, result>>
      ]_vars

\* the second reference is being resolved: the first one is loaded
C21_Witness ==
    /\ pc = "build"
    /\ Len(references) = 2
    /\ Len(resolver_calls) = 2
    /\ Len(ref_mapping) = 1
    /\ Keys(tables) = {<<"t">>}

\* the first of two references failed: the call is over with one resolver
\* call and nothing executed
C21_WitnessFailure ==
    /\ pc = "done"
    /\ Len(references) = 2
    /\ Len(resolver_calls) = 1
    /\ exc.cls = "EmptyRangeError"
    /\ tables = {}
    /\ rewritten_query = <<>>
    /\ result = NoResult

\* the reference was loaded, and then the second statement of the query
\* dropped its table
C21_WitnessExecuted ==
    /\ pc = "done"
    /\ Len(references) = 1
    /\ Len(ref_mapping) = 1
    /\ stmt_idx = 3
    /\ tables = {}
    /\ exc = NoExc

\* ------------------------------------------------------------------------
\* C22: execute_multiple_statements runs the statements it split in their
\* order in the text, each once, on the database of the call's connection,
\* which each statement leaves as the engine leaves it; when a statement
\* raises, no later statement runs and the exception leaves the function as
\* the engine raised it.
\* ------------------------------------------------------------------------
C22_StatementsInTextualOrder ==
    [][/\ pc = "statement" =>
            /\ statements = split_statements(rewritten_query)
            /\ stmt_idx \in 1..Len(statements)
            /\ conn = "open" /\ opened = 1
            /\ UNCHANGED <<conn, opened, statements>>
            /\ LET ran == cursor_execute(tables, statements[stmt_idx], 0) IN
               /\ tables' = ran.db
               /\ \/ /\ ran.status = "ok"
                     /\ exc' = NoExc
                     /\ stmt_idx' = stmt_idx + 1
                     /\ last_result'.query_type =
                           detect_query_type(statements[stmt_idx])
                     /\ pc' = IF stmt_idx < Len(statements) THEN "statement"
                              ELSE "limits"
                  \/ /\ ran.status = "error"
                     /\ exc' = ran.exc
                     /\ exc'.cls \in Sqlite3DatabaseErrorClasses
                     /\ pc' = "finally"
                     /\ UNCHANGED <<stmt_idx, last_result, last_select_result, result>>
       /\ (pc # "statement" /\ statements # <<>>) =>
            UNCHANGED <<statements, stmt_idx, last_result, last_select_result, tables>>
       /\ (exc # NoExc /\ statements # <<>>) =>
            /\ pc' \in {"handler", "done"}
            /\ ret'.kind \in {"none", "str"}
            /\ UNCHANGED <<exc, result>>
      ]_vars

\* the first of two statements has run and the second is next
C22_Witness ==
    /\ pc = "statement"
    /\ Len(statements) = 2
    /\ stmt_idx = 2
    /\ last_result.query_type = "SELECT"
    /\ detect_query_type(statements[2]) = "DROP"

\* the first of two statements raised: the second never ran
C22_WitnessRaised ==
    /\ pc = "done"
    /\ Len(statements) = 2
    /\ stmt_idx = 1
    /\ exc # NoExc
    /\ last_result = NoResult

\* the second statement was refused the table the first had created on the
\* same connection
C22_WitnessSameConnection ==
    /\ pc = "done"
    /\ Len(statements) = 2
    /\ stmt_idx = 2
    /\ last_result.query_type = "CREATE"
    /\ Keys(tables) = {<<"w">>}
    /\ Characters(exc.message) = Characters(<<"table w already exists">>)

\* ------------------------------------------------------------------------
\* C23: detect_query_type goes by the first word of the trimmed statement in
\* upper case: after WITH the type is the one of SELECT, INSERT, UPDATE,
\* DELETE that occurs first in the statement; otherwise it is the first word
\* when that is one of the eight recognised words, and OTHER when it is not.
\* ------------------------------------------------------------------------

\* the first word of a text: its longest prefix of word characters
RECURSIVE FirstWord(_)
FirstWord(s) ==
    IF s = <<>> \/ ~IsWordChar(s[1]) THEN <<>>
    ELSE <<s[1]>> \o FirstWord(Tail(s))

\* the words looked for after WITH
AfterWithKeywords == {"SELECT", "INSERT", "UPDATE", "DELETE"}

\* where a keyword first occurs in a text, 0 when it does not
FirstPosition(s, chars) ==
    IF ContainsText(s, chars)
    THEN CHOOSE p \in 1..Len(s) :
            At(s, p, chars) /\ \A r \in 1..(p - 1) : ~At(s, r, chars)
    ELSE 0

C23_ClassifiesByFirstWord ==
    pc = "detect_query_type_done" =>
        LET stripped == Upper(Strip(input))
            word == FirstWord(stripped)
            named == {k \in 1..Len(StatementKeywords) : StatementKeywords[k].chars = word}
            found == {k \in 1..Len(StatementKeywords) :
                         /\ StatementKeywords[k].name \in AfterWithKeywords
                         /\ ContainsText(stripped, StatementKeywords[k].chars)}
            pos(k) == FirstPosition(stripped, StatementKeywords[k].chars)
        IN  IF word = KwWITH
            THEN \A k \in found :
                    (\A j \in found : pos(k) <= pos(j))
                        => output = Gave(StatementKeywords[k].name)
            ELSE IF named # {}
            THEN \A k \in named : output = Gave(StatementKeywords[k].name)
            ELSE output = Gave("OTHER")

\* ------------------------------------------------------------------------
\* C24: infer_column_type goes by the values of the column that are not
\* null, in this order: none -> TEXT; all boolean -> INTEGER; all datetime
\* -> TEXT; all numbers, every one whole -> INTEGER; all numbers, some with
\* a fractional part -> REAL; anything else -> TEXT.  Nulls in the column
\* change nothing.
\* ------------------------------------------------------------------------
C24_InferredFromNonNullValues ==
    pc = "infer_column_type_done" =>
        LET present == {input[k] : k \in 1..Len(input)} \ {"null"}
        IN  output = Gave(
                IF present = {} THEN "TEXT"
                ELSE IF present = {"bool"} THEN "INTEGER"
                ELSE IF present = {"datetime"} THEN "TEXT"
                ELSE IF present \subseteq {"int", "whole"} THEN "INTEGER"
                ELSE IF present \subseteq {"int", "whole", "frac"} THEN "REAL"
                ELSE "TEXT")

\* ------------------------------------------------------------------------
\* C25: format_result gives every result one shape: with columns and rows,
\* a table of those columns, in order, and as many rows; without rows, one
\* cell Result = "<rowcount> rows affected" for INSERT, UPDATE, DELETE, one
\* cell Result = "OK" for CREATE, DROP, and an empty table for any other
\* result.
\* ------------------------------------------------------------------------
C25_OneShapePerResult ==
    pc = "format_result_done" =>
        IF Len(input.columns) > 0 /\ input.nrows > 0
        THEN output = Gave([frame |-> Returned("table", <<>>, Len(input.columns),
                                               input.nrows),
                            labels |-> input.columns])
        ELSE IF input.query_type \in {"INSERT", "UPDATE", "DELETE"}
        THEN output = Gave([frame |-> Returned("table",
                                <<ToString(input.rowcount), " rows affected">>, 1, 1),
                            labels |-> <<"Result">>])
        ELSE IF input.query_type \in {"CREATE", "DROP"}
        THEN output = Gave([frame |-> Returned("table", <<"OK">>, 1, 1),
                            labels |-> <<"Result">>])
        ELSE output = Gave([frame |-> Returned("table", <<>>, 0, 0), labels |-> <<>>])

\* ------------------------------------------------------------------------
\* C26: normalize_sqlite_error goes by the message, in this order: beginning
\* "no such table:" -> TableNotFound with the trimmed rest as the name;
\* beginning "no such column:" -> ColumnNotFound; holding "syntax error" ->
\* QuerySyntax with the whole message; an integrity violation -> Execution
\* "integrity error: ..."; a programming error -> Execution "programming
\* error: ..."; anything else -> Execution with the message as it is.  The
\* text of every result is "Error: " and its body.  A message that holds one
\* of the two "no such" texts elsewhere than at its head is left open, and
\* so is one that holds the words "syntax error" in another case only.
\* ------------------------------------------------------------------------
BeginsWith(msg, piece) == At(Characters(msg), 1, Characters(<<piece, ":">>))

HoldsPrefix(msg, piece) == InText(Characters(msg), Characters(<<piece, ":">>))

\* what follows the prefix at the head of the message, trimmed
TrimmedSuffix(msg, piece) ==
    Strip(Tail0(Characters(msg), Len(Characters(<<piece, ":">>)) + 1))

\* the same class and, character by character, the same message and text
SameError(a, b) ==
    /\ a.cls = b.cls
    /\ Characters(a.message) = Characters(b.message)
    /\ Characters(a.text) = Characters(b.text)

C26_ClassifiedByMessage ==
    pc = "normalize_sqlite_error_done" =>
        LET msg == input.text
            words == Characters(<<"syntax error">>)
        IN  /\ output.raised = "none"
            /\ Characters(output.value.text)
                   = Characters(<<"Error: ">> \o output.value.message)
            /\ IF BeginsWith(msg, "no such table")
               THEN SameError(output.value,
                        TableNotFoundError(TrimmedSuffix(msg, "no such table")))
               ELSE IF BeginsWith(msg, "no such column")
               THEN SameError(output.value,
                        ColumnNotFoundError(TrimmedSuffix(msg, "no such column")))
               ELSE IF HoldsPrefix(msg, "no such table") \/ HoldsPrefix(msg, "no such column")
               THEN TRUE
               ELSE IF InText(Characters(msg), words)
               THEN SameError(output.value, QuerySyntaxErrorDetails(msg))
               ELSE IF InText(Lower(Characters(msg)), words)
               THEN TRUE
               ELSE IF input.cls = "IntegrityError"
               THEN SameError(output.value,
                        ExecutionError(<<"integrity error: ">> \o msg))
               ELSE IF input.cls = "ProgrammingError"
               THEN SameError(output.value,
                        ExecutionError(<<"programming error: ">> \o msg))
               ELSE SameError(output.value, ExecutionError(msg))

\* ------------------------------------------------------------------------
\* C27: resolve_reference returns only a table with a row and a column, and
\* fails in this order: no return value -> RangeResolution; a value that is
\* no table -> RangeResolution; no rows -> EmptyRange, with or without
\* columns; rows but no columns -> RangeResolution; an exception of the host
\* -> RangeResolution.  The message of each of these errors names the
\* reference as it was written.
\* ------------------------------------------------------------------------
C27_ResolutionFailures ==
    pc = "resolve_reference_done" =>
        LET original == input.ref.original
            names(head) ==
                /\ Len(output.value) >= 1 + Len(original)
                /\ output.value[1] = head
                /\ SubSeq(output.value, 2, 1 + Len(original)) = original
        IN  IF input.host \in {"none", "not_dataframe", "raises", "import_error"}
            THEN output.raised = "RangeResolutionError"
                 /\ names("cannot resolve range: ")
            ELSE IF input.frame.nrows = 0
            THEN output.raised = "EmptyRangeError"
                 /\ names("range contains no data: ")
            ELSE IF Len(input.frame.columns) = 0
            THEN output.raised = "RangeResolutionError"
                 /\ names("cannot resolve range: ")
            ELSE /\ output = Gave(input.frame)
                 /\ output.value.nrows > 0
                 /\ Len(output.value.columns) > 0

\* the host returned a table with neither rows nor columns for S!A1:B2
C27_Witness ==
    /\ pc = "resolve_reference_done"
    /\ input.host = "dataframe"
    /\ input.frame = NoFrame
    /\ input.ref.original = <<"S", "!", "A", "1", ":", "B", "2">>
    /\ output = [raised |-> "EmptyRangeError",
                 value |-> <<"range contains no data: ", "S", "!", "A", "1", ":", "B", "2">>]

\* ------------------------------------------------------------------------
\* C28: the token after UPDATE and after INSERT INTO is taken with the
\* grammar used after FROM and JOIN, so a text gives the same references
\* whichever of the four anchors stands before it.
\* ------------------------------------------------------------------------
C28_SameTokenAfterEveryAnchor ==
    pc = "anchors_done" =>
        /\ output.join = output.from
        /\ output.update = output.from
        /\ output.insert = output.from

\* ------------------------------------------------------------------------
\* C29: the name under which a reference's table is created in the engine
\* (schema.sqlite_name) is the name written for the reference into the
\* rewritten query (ref.sqlite_name), reserved words included.
\* ------------------------------------------------------------------------
C29_CreatedNameIsWrittenName ==
    pc = "load" => schema.sqlite_name = references[idx].sqlite_name

\* ------------------------------------------------------------------------
\* C30: build_table_schema succeeds on every table whose headers
\* validate_headers accepts, non-string headers and headers with blanks
\* around them included, and gives one ColumnSchema per header, in header
\* order, named by the validated header and typed as the column was inferred.
\* ------------------------------------------------------------------------
C30_BuildsEveryAcceptedTable ==
    [][pc = "build" /\ validate_headers(df.columns).exc = NoExc
         => LET validated == validate_headers(df.columns).validated
            IN  /\ pc' = "load"
                /\ Len(schema'.columns) = Len(validated)
                /\ \A i \in 1..Len(validated) :
                      /\ schema'.columns[i].name = validated[i]
                      /\ schema'.columns[i].sqlite_type = df.types[i]]_vars

====
